---------------------------- MODULE Spec2Model ----------------------------
(***************************************************************************)
(* fnwispr client (src/client/main.py, src/client/gui.py,                  *)
(* src/client/tray.py): the hotkey driven capture-and-transcription        *)
(* pipeline and the configuration changes at run time.                     *)
(*                                                                         *)
(* Fifteen specifications share the variables of this module:              *)
(*   Spec       the key listener thread: on_press, on_release and the      *)
(*              steps of start_recording and stop_recording, for every     *)
(*              sequence of key events and stream failures;                *)
(*   SpecAudio  the listener driven by a one-key hotkey, interleaved with  *)
(*              the audio delivery callbacks and the per-recording         *)
(*              workers;                                                   *)
(*   SpecNorm   normalize_key applied to every key under every combo;      *)
(*   SpecParse  parse_hotkey applied to configured hotkey strings and to   *)
(*              the strings the settings window's hotkey recorder builds.  *)
(*   SpecPipe   the workers of successive recordings (process_audio,       *)
(*              transcribe_audio, insert_text), each recording taken in    *)
(*              one step;                                                  *)
(*   SpecConfig the threads the tray and the settings window start for     *)
(*              _on_model_change, _on_device_change and _on_config_change; *)
(*   SpecFrames the listener of SpecAudio with the delivery callbacks and  *)
(*              without the workers' steps;                                *)
(*   SpecDevice the listener interleaved with the threads that change the  *)
(*              microphone device and the sample rate;                     *)
(*   SpecEvents the listener of Spec with key events whose handling        *)
(*              raises;                                                    *)
(*   SpecSamples the conversion of WAV samples to float32;                 *)
(*   SpecStartup main() from construction to the start of the listener;    *)
(*   SpecTray   the change threads of the tray menu alone;                 *)
(*   SpecWindow the handlers of SpecDevice with the changes an open        *)
(*              settings window sends;                                     *)
(*   SpecExit, SpecExitFair  run() with the listener loop, the tray loop   *)
(*              and the tray's Exit item, without and with fair            *)
(*              scheduling of the threads.                                 *)
(* Keys are named as pynput names them (keyboard.Key.ctrl_l is "ctrl_l",   *)
(* KeyCode.from_char('a') is "a").  Strings that the code parses are       *)
(* sequences of one-character strings.                                     *)
(***************************************************************************)
EXTENDS Integers, Sequences, FiniteSets, TLC

VARIABLES
    hotkey_combo,   \* self.hotkey_combo: set of keys
    current_keys,   \* self.current_keys: set of normalized keys
    held,           \* environment: raw keys physically held down
    recording,      \* self.recording
    audio_data,     \* self.audio_data: sequence of blocks <<stream, late>>
    stream,         \* self.stream: id of an InputStream, 0 for None
    streams,        \* every InputStream created so far: id -> state
    stream_args,    \* arguments each InputStream was created with: id -> record
    cb,             \* audio delivery context of each stream: position in audio_callback
    delivered,      \* number of blocks each stream has delivered so far
    pc,             \* key listener thread: position in on_release / stop_recording
    relkey,         \* raw key of the on_release call in progress
    is_running,     \* self.is_running
    stopped,        \* streams whose stop_recording has cleared the flag, in order
    start_log,      \* outcome of the start_recording call of the last key handler ("" if it made none)
    stop_log,       \* steps the stop_recording in progress (or the last one) has performed
    workers,        \* per-recording worker threads: session -> record
    typed,          \* texts pyautogui.typewrite has typed, in order: <<session, text>>
    err,            \* errors the handler in progress (or the last one) has logged
    nk_key,         \* SpecNorm: argument of normalize_key
    nk_result,      \* SpecNorm: its result, "pending" before the call
    wav_dtype,      \* SpecSamples: audio_data.dtype of the file wavfile.read returned
    wav_sample,     \* SpecSamples: one sample of audio_data
    audio_float,    \* SpecSamples: the sample in audio_float, <<>> before the conversion
    st_pc,          \* SpecStartup: position of main() in FnwisprClient.__init__ and run
    st_provided,    \* SpecStartup: __init__ was given a config_path
    st_file,        \* SpecStartup: the file at config_path
    st_legacy,      \* SpecStartup: config.json of the old location (working directory)
    st_source,      \* SpecStartup: what load_config returned
    st_log,         \* SpecStartup: errors logged during startup
    ex_tray,        \* TrayManager.run: "init", "running" (inside icon.run()), "ended"
    ex_listener,    \* _keyboard_listener_thread: "init", "polling", "ended"
    ex_pending,     \* threads started by _on_exit_click that have not run on_exit yet
    ex_delivered,   \* number of on_exit() calls made
    config_hotkey,  \* config["hotkey"] in memory
    saved_hotkey,   \* "hotkey" of the persisted config file
    recorded_keys,  \* SettingsWindow.recorded_keys
    rec_open,       \* the Record Hotkey dialog is open
    config,         \* self.config: id of the dict object it refers to
    dicts,          \* contents of every configuration dict object: id -> dict
    saved_config,   \* contents of the persisted configuration file
    whisper_model,  \* self.whisper_model: id of the resident model
    previous_device,\* self.previous_device
    alerts,         \* alerts the AlertManager has shown, in order
    chg,            \* configuration change threads: thread -> record
    sample_rate,    \* self.sample_rate
    loaded          \* model loads that succeeded, in order: <<thread, requested, loaded>>

capVars == <<current_keys, held, recording, audio_data, stream, streams,
             stream_args, cb,
             delivered, pc, relkey, is_running, stopped, start_log, stop_log,
             workers, typed, err>>
startVars == <<st_pc, st_provided, st_file, st_legacy, st_source, st_log>>
exitVars == <<ex_tray, ex_listener, ex_pending, ex_delivered>>
normVars == <<nk_key, nk_result, wav_dtype, wav_sample, audio_float, startVars,
              exitVars>>
parseVars == <<config_hotkey, saved_hotkey, recorded_keys, rec_open>>
cfgVars == <<config, dicts, saved_config, whisper_model, previous_device,
             alerts, chg, sample_rate, loaded>>
vars == <<hotkey_combo, capVars, normVars, parseVars, cfgVars>>

---------------------------------------------------------------------------
(* Bounds *)

\* InputStream objects start_recording may create (one per recording attempt).
MaxSessions == 2
\* Blocks one stream delivers.
MaxBlocks == 1
\* Keys the hotkey recorder dialog collects before the first release.
MaxRecorded == 2
\* Configuration change threads the tray and the settings window start.
MaxChanges == 2
\* Clicks on the tray's Exit item.
MaxExitClicks == 2

---------------------------------------------------------------------------
(* Keys *)

\* Side-agnostic modifiers and their side-specific variants as pynput delivers
\* them.  On win32 keyboard.Key.cmd_l is an alias of keyboard.Key.cmd, so the
\* left Windows key is "cmd" itself and only "cmd_r" is a distinct variant.
Modifiers == {"ctrl", "alt", "shift", "cmd"}
Variants(m) ==
    CASE m = "ctrl"  -> {"ctrl_l", "ctrl_r"}
      [] m = "alt"   -> {"alt_l", "alt_r"}
      [] m = "shift" -> {"shift_l", "shift_r"}
      [] m = "cmd"   -> {"cmd_r"}

SideKeys == UNION {Variants(m) : m \in Modifiers}
\* Printable characters, special keys and keys the mapping does not know.
OtherKeys == {"a", "b", "esc", "space", "f13"}
Keys == Modifiers \cup SideKeys \cup OtherKeys

\* normalize_key with the combo wrongly ignored: a variant always becomes its base.
normalize_key_always(key, combo) ==
    IF key \in {"ctrl_l", "ctrl_r"} THEN "ctrl"
    ELSE IF key \in {"alt_l", "alt_r"} THEN "alt"
    ELSE IF key \in {"shift_l", "shift_r"} THEN "shift"
    ELSE key

\* FnwisprClient.normalize_key
normalize_key(key, combo) ==
    IF (key = "ctrl_l" \/ key = "ctrl_r") /\ "ctrl" \in combo THEN "ctrl"
    ELSE IF (key = "alt_l" \/ key = "alt_r") /\ "alt" \in combo THEN "alt"
    ELSE IF (key = "shift_l" \/ key = "shift_r") /\ "shift" \in combo THEN "shift"
    ELSE key

---------------------------------------------------------------------------
(* Hotkey strings *)

\* str.lower() on the characters hotkey strings are written with.
LowerChar(c) ==
    CASE c = "A" -> "a"
      [] c = "C" -> "c"
      [] c = "L" -> "l"
      [] c = "R" -> "r"
      [] c = "S" -> "s"
      [] c = "W" -> "w"
      [] OTHER -> c

Lower(s) == [i \in 1..Len(s) |-> LowerChar(s[i])]

\* str.strip(): leading and trailing whitespace removed.
RECURSIVE LStrip(_)
LStrip(s) == IF s # <<>> /\ Head(s) = " " THEN LStrip(Tail(s)) ELSE s
RECURSIVE RStrip(_)
RStrip(s) ==
    IF s # <<>> /\ s[Len(s)] = " " THEN RStrip(SubSeq(s, 1, Len(s) - 1)) ELSE s
Strip(s) == RStrip(LStrip(s))

\* str.split('+'): the parts between the separators, empty parts kept.
RECURSIVE SplitFrom(_, _)
SplitFrom(s, cur) ==
    IF s = <<>> THEN <<cur>>
    ELSE IF Head(s) = "+" THEN <<cur>> \o SplitFrom(Tail(s), <<>>)
    ELSE SplitFrom(Tail(s), Append(cur, Head(s)))
Split(s) == SplitFrom(s, <<>>)

\* "+".join(parts)
RECURSIVE Join(_)
Join(parts) ==
    IF parts = <<>> THEN <<>>
    ELSE IF Len(parts) = 1 THEN parts[1]
    ELSE parts[1] \o <<"+">> \o Join(Tail(parts))

\* key_mapping of parse_hotkey: part name -> key ("" when the name is absent).
key_mapping(part) ==
    CASE part = <<"c","t","r","l">>         -> "ctrl"
      [] part = <<"c","t","r","l","_","l">> -> "ctrl_l"
      [] part = <<"c","t","r","l","_","r">> -> "ctrl_r"
      [] part = <<"a","l","t">>             -> "alt"
      [] part = <<"a","l","t","_","l">>     -> "alt_l"
      [] part = <<"a","l","t","_","r">>     -> "alt_r"
      [] part = <<"s","h","i","f","t">>     -> "shift"
      [] part = <<"s","h","i","f","t","_","l">> -> "shift_l"
      [] part = <<"s","h","i","f","t","_","r">> -> "shift_r"
      [] part = <<"c","m","d">>             -> "cmd"
      [] part = <<"w","i","n">>             -> "cmd"
      [] OTHER -> ""

\* One part of the split string: the keys it adds to the set.
parse_part(raw) ==
    LET part == Strip(raw) IN
    IF key_mapping(part) # "" THEN {key_mapping(part)}
    ELSE IF Len(part) = 1 THEN {part[1]}
    ELSE {}

\* FnwisprClient.parse_hotkey
parse_hotkey(hotkey_string) ==
    LET parts == Split(Lower(hotkey_string)) IN
    UNION {parse_part(parts[i]) : i \in 1..Len(parts)}


---------------------------------------------------------------------------
(* The configuration.  A configuration dict is a function from the names   *)
(* of the fields it holds to their values; null is "null".  auto_start     *)
(* and close_behavior are carried like language and left out.              *)

S_ctrl_win == <<"c","t","r","l","+","w","i","n">>
S_ctrl_a == <<"c","t","r","l","+","a">>

\* Models of the tray's Model submenu, devices of its Microphone submenu.
Models == {"base", "small", "large"}
Devices == {"null", "2"}

\* create_default_config
default_config ==
    [hotkey |-> S_ctrl_win, model |-> "base", sample_rate |-> 16000,
     microphone_device |-> "null", language |-> "null"]

\* d.get(key, default)
Get(d, key, default) == IF key \in DOMAIN d THEN d[key] ELSE default

\* d[key] = value on a dict
SetItem(d, key, value) ==
    [k \in DOMAIN d \cup {key} |-> IF k = key THEN value ELSE d[k]]

\* json.dump(self.config) followed by json.load of the next start.
NoDict == [k \in {} |-> "null"]

\* A thread that has not been started.  kind: the handler it runs; arg: the
\* model or the device of a tray selection; pc: its position; name: the
\* model_name _load_whisper_model has read.  The new_config of thread i is
\* the dict object i.
\* update, before: the dict on_config_change was called with and the
\* contents of self.config when it was called; changed: the handler has
\* changed the in-memory configuration; saved: it has called save_config;
\* raised: the call that raised the exception which ended the thread;
\* probe: the device and the sample rate _init_microphone created its test
\* stream with, and whether a recording was in flight at that time (the
\* flag set, or stop_recording not yet returned); save_error: its save_config
\* has logged "Failed to save configuration".
NoProbe == [device |-> "", samplerate |-> 0, inflight |-> FALSE]
NoChange == [kind |-> "none", arg |-> "", pc |-> "none", name |-> "",
             update |-> NoDict, before |-> NoDict,
             changed |-> FALSE, saved |-> FALSE, raised |-> "",
             probe |-> NoProbe, save_error |-> FALSE]

\* The state FnwisprClient.__init__ leaves with the configuration d read
\* from the file: self.config is dict object 0, the model is loaded, nothing
\* is shown.
CfgIdleWith(d) ==
    /\ config = 0
    /\ dicts = [i \in 0..MaxChanges |-> IF i = 0 THEN d ELSE NoDict]
    /\ saved_config = d
    /\ whisper_model = Get(d, "model", "base")
    /\ sample_rate = Get(d, "sample_rate", 16000)
    /\ previous_device = "null"
    /\ alerts = <<>>
    /\ chg = [i \in 1..MaxChanges |-> NoChange]
    /\ loaded = <<>>

\* The same with the default configuration.
CfgIdle == CfgIdleWith(default_config)

---------------------------------------------------------------------------
(* Values the variables of a part hold while another specification runs. *)

\* A worker that has not been started.  frames0: blocks in the frame sequence
\* when the worker was started; audio: the blocks it concatenated; called:
\* whisper_model.transcribe was called; model: the model instance the call
\* ran on; raised: transcribe_audio caught an exception; result: the texts
\* transcribe returned; text: the stripped text; inserted: the texts
\* insert_text was invoked with; file: the temporary file ("none" before it
\* is created, "exists", "removed"); failed: the stages that raised.
NoWorker == [pc |-> "none", frames0 |-> 0, audio |-> <<>>, text |-> <<>>,
             called |-> FALSE, model |-> "", raised |-> FALSE,
             result |-> <<>>, inserted |-> <<>>, file |-> "none",
             failed |-> {}]

\* No InputStream created yet.
NoArgs == [samplerate |-> 0, device |-> ""]

CapInit ==
    /\ current_keys = {}
    /\ held = {}
    /\ recording = FALSE
    /\ audio_data = <<>>
    /\ stream = 0
    /\ streams = [s \in 1..MaxSessions |-> "none"]
    /\ stream_args = [s \in 1..MaxSessions |-> NoArgs]
    /\ cb = [s \in 1..MaxSessions |-> <<"idle", FALSE>>]
    /\ delivered = [s \in 1..MaxSessions |-> 0]
    /\ pc = "idle"
    /\ relkey = ""
    /\ is_running = TRUE
    /\ stopped = <<>>
    /\ start_log = ""
    /\ stop_log = <<>>
    /\ workers = [n \in 1..MaxSessions |-> NoWorker]
    /\ typed = <<>>
    /\ err = {}

SamplesIdle == wav_dtype = "" /\ wav_sample = 0 /\ audio_float = <<>>

\* A file: kind is "missing", "invalid" (not JSON), "not_object" (JSON that
\* is not an object) or "valid"; content is the object of a valid file.
File(kind, content) == [kind |-> kind, content |-> content]

\* run() has not been called: no listener thread, no tray icon, no Exit
\* clicked.
ExitNotStarted ==
    /\ ex_tray = "init"
    /\ ex_listener = "init"
    /\ ex_pending = 0
    /\ ex_delivered = 0

\* main() has constructed the client from the file at config_path and run()
\* has started the listener and is inside the tray loop.
StartedUp ==
    /\ ex_tray = "running"
    /\ ex_listener = "polling"
    /\ ex_pending = 0
    /\ ex_delivered = 0
    /\ st_pc = "listening"
    /\ st_provided = TRUE
    /\ st_file = File("valid", default_config)
    /\ st_legacy = File("missing", NoDict)
    /\ st_source = "file"
    /\ st_log = {}

NormIdle == nk_key = "" /\ nk_result = "pending" /\ SamplesIdle /\ StartedUp

ParseIdle ==
    /\ config_hotkey = <<>>
    /\ saved_hotkey = <<>>
    /\ recorded_keys = <<>>
    /\ rec_open = FALSE

---------------------------------------------------------------------------
(* SpecNorm: normalize_key on every key under every combo parse_hotkey can *)
(* produce.                                                                 *)

\* Keys parse_hotkey can put in a combo: the values of key_mapping and
\* single characters.
ComboKeys == {"ctrl", "ctrl_l", "ctrl_r", "alt", "alt_l", "alt_r",
              "shift", "shift_l", "shift_r", "cmd", "a", "b"}

NormInit ==
    /\ hotkey_combo \in SUBSET ComboKeys
    /\ nk_key \in Keys
    /\ nk_result = "pending"
    /\ SamplesIdle
    /\ StartedUp
    /\ CapInit
    /\ ParseIdle
    /\ CfgIdle

\* One call normalized_key = self.normalize_key(key).
NormalizeCall ==
    /\ nk_result = "pending"
    /\ nk_result' = normalize_key(nk_key, hotkey_combo)
    /\ UNCHANGED <<hotkey_combo, nk_key, wav_dtype, wav_sample, audio_float,
                   startVars, exitVars, capVars, parseVars, cfgVars>>

NormNext == NormalizeCall

SpecNorm == NormInit /\ [][NormNext]_vars

---------------------------------------------------------------------------
(* SpecSamples: the conversion of the samples of a WAV file to float32 in  *)
(* transcribe_audio.  A float32 value is a pair <<m, e>> that stands for   *)
(* m * 2^e, with |m| <= 2^24; integers are 32 bits wide.                   *)

MinInt32 == -2147483647 - 1

RECURSIVE Pow2(_)
Pow2(n) == IF n = 0 THEN 1 ELSE 2 * Pow2(n - 1)

\* -(2^n) for n up to 31.
NegPow2(n) == IF n = 31 THEN MinInt32 ELSE -Pow2(n)

\* The samples the conversion is applied to: the values of the tests, the
\* ends of every integer range, and 32-bit values around 2^24, 2^25 and
\* 2^31 that have more than 24 significant bits.
Int16Samples == {-32768, -32767, -100, -1, 0, 1, 100, 200, 300, 32767}
UInt8Samples == 0..255
Int32Samples == {MinInt32, MinInt32 + 1, -1073741888, -16777217, -16777216,
                 -100, -1, 0, 1, 100, 16777215, 16777216, 16777217,
                 16777218, 16777219, 33554434, 33554438, 1073741888,
                 2147483520, 2147483583, 2147483584, 2147483647}
Float32Samples == {<<0, 0>>, <<1, -1>>, <<-1, 0>>, <<3, -1>>, <<-5, -2>>}
Dtypes == {"int16", "int32", "uint8", "float32"}
SamplesOf(dtype) ==
    CASE dtype = "int16" -> Int16Samples
      [] dtype = "int32" -> Int32Samples
      [] dtype = "uint8" -> UInt8Samples
      [] dtype = "float32" -> Float32Samples

\* The low bits a 32-bit integer loses in float32: 0 below 2^24 in
\* magnitude, k when the magnitude is in [2^(23+k), 2^(24+k)).
DroppedBits(s) ==
    LET nm == IF s > 0 THEN -s ELSE s
    IN  CHOOSE k \in 0..8 :
            /\ k = 8 \/ nm > NegPow2(24 + k)
            /\ k = 0 \/ nm <= NegPow2(23 + k)

\* audio_data.astype(np.float32) of an integer sample: the nearest float32,
\* ties to the even significand.
astype_float32(s) ==
    LET k == DroppedBits(s)
        q == Pow2(k)
        f == s \div q
        r == s % q
        m == IF 2 * r < q THEN f
             ELSE IF 2 * r > q THEN f + 1
             ELSE IF f % 2 = 0 THEN f ELSE f + 1
    IN  <<m, k>>

\* x / 2^n and x - c for a float32 x; both are exact for the operands of
\* transcribe_audio (a power of two; 128 from a value in 0..255).
DivPow2(x, n) == <<x[1], x[2] - n>>
Minus(x, c) == <<x[1] * Pow2(x[2]) - c, 0>>

\* The conversion without the offset of the unsigned samples.
normalize_sample_no_offset(dtype, s) ==
    IF dtype # "float32"
    THEN LET converted == astype_float32(s)
         IN  IF dtype = "int16" THEN DivPow2(converted, 15)
             ELSE IF dtype = "int32" THEN DivPow2(converted, 31)
             ELSE IF dtype = "uint8" THEN DivPow2(converted, 7)
             ELSE converted
    ELSE s

\* transcribe_audio, the conversion of one sample: astype(np.float32), then
\* / 32768.0, / 2147483648.0 or (x - 128) / 128.0 by dtype; float32 data is
\* used as it is.
normalize_sample(dtype, s) ==
    IF dtype # "float32"
    THEN LET converted == astype_float32(s)
         IN  IF dtype = "int16" THEN DivPow2(converted, 15)
             ELSE IF dtype = "int32" THEN DivPow2(converted, 31)
             ELSE IF dtype = "uint8" THEN DivPow2(Minus(converted, 128), 7)
             ELSE converted
    ELSE s

SamplesInit ==
    /\ wav_dtype \in Dtypes
    /\ wav_sample \in SamplesOf(wav_dtype)
    /\ audio_float = <<>>
    /\ hotkey_combo = parse_hotkey(default_config["hotkey"])
    /\ nk_key = ""
    /\ nk_result = "pending"
    /\ StartedUp
    /\ CapInit
    /\ ParseIdle
    /\ CfgIdle

\* The conversion of the sample.
ConvertSample ==
    /\ audio_float = <<>>
    /\ audio_float' = normalize_sample(wav_dtype, wav_sample)
    /\ UNCHANGED <<hotkey_combo, nk_key, nk_result, wav_dtype, wav_sample,
                   startVars, exitVars, capVars, parseVars, cfgVars>>

SamplesNext == ConvertSample

SpecSamples == SamplesInit /\ [][SamplesNext]_vars

---------------------------------------------------------------------------
(* SpecParse: the configured hotkey string, the settings window's hotkey   *)
(* recorder, the configuration change it sends, and the parse at startup.  *)

S_Ctrl_l_a == <<"C","t","r","l","_","L"," ","+"," ","A">>
S_ctrl_invalid == <<"c","t","r","l","+","x","y">>

\* Hotkey strings of the configuration file at first start: the default of
\* create_default_config, one with case and spaces, one with an unknown name.
ConfigHotkeys == {S_ctrl_win, S_Ctrl_l_a, S_ctrl_invalid}

\* event.keysym of the keys pressed in the recorder dialog (Tk names).
KS_Control_L == <<"C","o","n","t","r","o","l","_","L">>
KS_Shift_L == <<"S","h","i","f","t","_","L">>
KS_Win_L == <<"W","i","n","_","L">>
KS_a == <<"a">>
Keysyms == {KS_Control_L, KS_Shift_L, KS_Win_L, KS_a}

ParseInit ==
    /\ saved_hotkey \in ConfigHotkeys
    /\ config_hotkey = saved_hotkey
    /\ hotkey_combo = parse_hotkey(config_hotkey)
    /\ recorded_keys = <<>>
    /\ rec_open = FALSE
    /\ CapInit
    /\ NormIdle
    /\ CfgIdle

\* SettingsWindow._record_hotkey
record_hotkey ==
    /\ ~rec_open
    /\ rec_open' = TRUE
    /\ recorded_keys' = <<>>
    /\ UNCHANGED <<hotkey_combo, config_hotkey, saved_hotkey, capVars, normVars, cfgVars>>

\* SettingsWindow._on_key_press
gui_on_key_press(key_name) ==
    /\ rec_open
    /\ Len(recorded_keys) < MaxRecorded
    /\ recorded_keys' =
         IF \E i \in 1..Len(recorded_keys) : recorded_keys[i] = key_name
         THEN recorded_keys
         ELSE Append(recorded_keys, key_name)
    /\ UNCHANGED <<hotkey_combo, config_hotkey, saved_hotkey, rec_open,
                   capVars, normVars, cfgVars>>

\* FnwisprClient._on_config_change, the hotkey field: self.config is replaced
\* by new_config before the old and the new hotkey are compared, so both
\* reads give the new string; the merged configuration is then saved.
on_config_change_hotkey(new_hotkey) ==
    LET config1 == new_hotkey
        old_hotkey == config1
    IN  /\ hotkey_combo' = IF old_hotkey # new_hotkey
                           THEN parse_hotkey(new_hotkey)
                           ELSE hotkey_combo
        /\ config_hotkey' = new_hotkey
        /\ saved_hotkey' = new_hotkey

\* SettingsWindow._on_key_release: the first release ends the recording,
\* joins the recorded names and sends the changed configuration.
gui_on_key_release ==
    /\ rec_open
    /\ Len(recorded_keys) > 0
    /\ on_config_change_hotkey(Join(recorded_keys))
    /\ rec_open' = FALSE
    /\ UNCHANGED <<recorded_keys, capVars, normVars, cfgVars>>

\* The next start of the application: FnwisprClient.__init__ loads the
\* persisted configuration and parses its hotkey.
Startup ==
    /\ ~rec_open
    /\ config_hotkey' = saved_hotkey
    /\ hotkey_combo' = parse_hotkey(saved_hotkey)
    /\ recorded_keys' = <<>>
    /\ UNCHANGED <<saved_hotkey, rec_open, capVars, normVars, cfgVars>>

ParseNext ==
    \/ record_hotkey
    \/ \E k \in Keysyms : gui_on_key_press(k)
    \/ gui_on_key_release
    \/ Startup

SpecParse == ParseInit /\ [][ParseNext]_vars

---------------------------------------------------------------------------
(* The capture pipeline: the key listener thread (on_press, on_release     *)
(* with the steps of stop_recording), the audio delivery context of every  *)
(* stream (audio_callback) and the worker thread of every recording        *)
(* (process_audio, transcribe_audio, insert_text).  The callbacks and the  *)
(* workers write only audio_data, cb, delivered, workers and typed, none   *)
(* of which the listener reads except to wait in stream.stop(), so Spec    *)
(* leaves them out and SpecAudio runs them.                                *)

\* Raw keys the operating system delivers.
RawKeys == {"ctrl_l", "ctrl_r", "cmd", "a", "esc"}

\* Hotkey strings of the configuration: the default, one naming a side, and
\* one with a character key.
S_ctrl_l_win == <<"c","t","r","l","_","l","+","w","i","n">>
CapHotkeys == {S_ctrl_win, S_ctrl_l_win, S_ctrl_a}

\* Texts whisper's transcribe returns in result["text"].
Texts == {<<" ">>, <<" ","h","i"," ">>}

CaptureInit ==
    /\ hotkey_combo \in {parse_hotkey(h) : h \in CapHotkeys}
    /\ CapInit
    /\ NormIdle
    /\ ParseIdle
    /\ CfgIdle

\* Streams that were opened and not closed.
OpenStreams == {s \in 1..MaxSessions : streams[s] \in {"open", "active", "stopped"}}
\* InputStream objects created so far.
Created == {s \in 1..MaxSessions : streams[s] # "none"}
NewStream == Cardinality(Created) + 1
\* Streams whose stop_recording has cleared the flag.
StoppedStreams == {stopped[i] : i \in 1..Len(stopped)}

\* The arguments with the device the configuration held at construction.
StreamArgsStartupDevice ==
    [samplerate |-> sample_rate,
     device |-> Get(default_config, "microphone_device", "null")]

\* sd.InputStream(samplerate=self.sample_rate, channels=1,
\* callback=self.audio_callback, device=self.config.get("microphone_device"))
StreamArgs ==
    [samplerate |-> sample_rate,
     device |-> Get(dicts[config], "microphone_device", "null")]

\* start_recording without its guard: it starts whether or not a recording
\* is in progress.
start_recording_unguarded ==
    /\ NewStream <= MaxSessions
    /\ recording' = TRUE
    /\ audio_data' = <<>>
    /\ stream' = NewStream
    /\ streams' = [streams EXCEPT ![NewStream] = "active"]
    /\ stream_args' = [stream_args EXCEPT ![NewStream] = StreamArgs]
    /\ start_log' = "started"
    /\ err' = {}

\* FnwisprClient.start_recording.  The flag is set and the frame sequence
\* reset; then either the stream is created and started, or
\* sd.InputStream(...) raises (no stream object, self.stream kept), or
\* stream.start() raises (self.stream is the new stream, opened and never
\* closed); a failure is logged and clears the flag again.
start_recording ==
    IF recording
    THEN /\ UNCHANGED <<recording, audio_data, stream, streams, stream_args>>
         /\ start_log' = "noop"
         /\ err' = {}
    ELSE \/ /\ NewStream <= MaxSessions
            /\ recording' = TRUE
            /\ audio_data' = <<>>
            /\ stream' = NewStream
            /\ streams' = [streams EXCEPT ![NewStream] = "active"]
            /\ stream_args' = [stream_args EXCEPT ![NewStream] = StreamArgs]
            /\ start_log' = "started"
            /\ err' = {}
         \/ /\ recording' = FALSE
            /\ audio_data' = <<>>
            /\ start_log' = "failed"
            /\ err' = {"start"}
            /\ UNCHANGED <<stream, streams, stream_args>>
         \/ /\ NewStream <= MaxSessions
            /\ recording' = FALSE
            /\ audio_data' = <<>>
            /\ stream' = NewStream
            /\ streams' = [streams EXCEPT ![NewStream] = "open"]
            /\ stream_args' = [stream_args EXCEPT ![NewStream] = StreamArgs]
            /\ start_log' = "failed"
            /\ err' = {"start"}

\* FnwisprClient.on_press.  A press of a key already held is the keyboard's
\* auto-repeat.
on_press(key) ==
    /\ pc = "idle"
    /\ LET normalized_key == normalize_key(key, hotkey_combo) IN
       /\ current_keys' = current_keys \cup {normalized_key}
       /\ held' = held \cup {key}
       /\ IF hotkey_combo \subseteq current_keys'
          THEN start_recording
          ELSE /\ UNCHANGED <<recording, audio_data, stream, streams,
                               stream_args>>
               /\ start_log' = ""
               /\ err' = {}
    /\ UNCHANGED <<hotkey_combo, pc, relkey, is_running, stopped, stop_log,
                   workers, typed, cb, delivered, normVars, parseVars, cfgVars>>

\* The end of on_release: the Escape test on the raw key.
EscapeTest(key) ==
    IF key = "esc"
    THEN is_running' = FALSE /\ pc' = "dead"
    ELSE is_running' = is_running /\ pc' = "idle"

\* on_release that stops the recording only once no combo key is held.
on_release_all_released(key) ==
    /\ pc = "idle"
    /\ key \in held
    /\ LET normalized_key == normalize_key(key, hotkey_combo) IN
       /\ current_keys' = current_keys \ {normalized_key}
       /\ held' = held \ {key}
       /\ IF hotkey_combo \cap current_keys' = {} /\ recording
          THEN /\ recording' = FALSE
               /\ stopped' = Append(stopped, stream)
               /\ stop_log' = <<"flag">>
               /\ pc' = "stop_stream"
               /\ relkey' = key
               /\ UNCHANGED is_running
          ELSE /\ EscapeTest(key)
               /\ UNCHANGED <<recording, stopped, stop_log, relkey>>
    /\ err' = {}
    /\ start_log' = ""
    /\ UNCHANGED <<hotkey_combo, audio_data, stream, streams, stream_args,
                   cb, delivered, workers, typed, normVars, parseVars,
                   cfgVars>>

\* FnwisprClient.on_release up to the first statement of stop_recording:
\* the key is normalized and discarded from the pressed set; if it is a combo
\* key and a recording is in progress, stop_recording begins and clears the
\* flag; otherwise the handler goes on to the Escape test.
on_release(key) ==
    /\ pc = "idle"
    /\ key \in held
    /\ LET normalized_key == normalize_key(key, hotkey_combo) IN
       /\ current_keys' = current_keys \ {normalized_key}
       /\ held' = held \ {key}
       /\ IF normalized_key \in hotkey_combo /\ recording
          THEN /\ recording' = FALSE
               /\ stopped' = Append(stopped, stream)
               /\ stop_log' = <<"flag">>
               /\ pc' = "stop_stream"
               /\ relkey' = key
               /\ UNCHANGED is_running
          ELSE /\ EscapeTest(key)
               /\ UNCHANGED <<recording, stopped, stop_log, relkey>>
    /\ err' = {}
    /\ start_log' = ""
    /\ UNCHANGED <<hotkey_combo, audio_data, stream, streams, stream_args,
                   cb, delivered, workers, typed, normVars, parseVars,
                   cfgVars>>

\* The worker thread started for the recording in progress.
StartWorker ==
    workers' = [workers EXCEPT ![Len(stopped)] =
                  [NoWorker EXCEPT !.pc = "check",
                                   !.frames0 = Len(audio_data)]]

\* The second step of stop_recording with the worker started before the
\* stream is stopped and closed.
stop_stream_worker_first ==
    /\ pc = "stop_stream"
    /\ StartWorker
    /\ stop_log' = Append(stop_log, "worker")
    /\ pc' = "stop_spawn"
    /\ UNCHANGED <<hotkey_combo, current_keys, held, recording, audio_data,
                   stream, streams, stream_args, start_log, cb,
                   delivered, relkey,
                   is_running, stopped, typed, err, normVars, parseVars,
                   cfgVars>>

\* stop_recording, second step: self.stream.stop(); self.stream.close().
\* stop() returns once the delivery callback in progress has returned.  If
\* stop() raises, close() is not called and the stream stays open, running
\* or not; if close() raises the stream is stopped, closed or not.  The
\* exception is logged.
stop_stream ==
    /\ pc = "stop_stream"
    /\ \/ /\ cb[stream][1] = "idle"
          /\ streams' = [streams EXCEPT ![stream] = "closed"]
          /\ err' = err
       \/ /\ \E st \in {"active", "stopped"} :
                streams' = [streams EXCEPT ![stream] = st]
          /\ err' = {"stop"}
       \/ /\ cb[stream][1] = "idle"
          /\ \E st \in {"stopped", "closed"} :
                streams' = [streams EXCEPT ![stream] = st]
          /\ err' = {"stop"}
    /\ stop_log' = Append(stop_log, "stream")
    /\ pc' = "stop_spawn"
    /\ UNCHANGED <<hotkey_combo, current_keys, held, recording, audio_data,
                   stream, stream_args, start_log, cb,
                   delivered, relkey, is_running,
                   stopped, workers, typed, normVars, parseVars, cfgVars>>

\* The last step of stop_recording with the worker started only when the
\* stream was stopped and closed without an exception.
spawn_worker_unless_error ==
    /\ pc = "stop_spawn"
    /\ IF err = {} THEN StartWorker ELSE UNCHANGED workers
    /\ stop_log' = Append(stop_log, "worker")
    /\ EscapeTest(relkey)
    /\ relkey' = ""
    /\ UNCHANGED <<hotkey_combo, current_keys, held, recording, audio_data,
                   stream, streams, stream_args, start_log, cb, delivered,
                   stopped, typed, err, normVars, parseVars, cfgVars>>

\* stop_recording, last step: threading.Thread(target=self.process_audio,
\* daemon=True).start(); stop_recording returns and on_release goes on to
\* the Escape test.
spawn_worker ==
    /\ pc = "stop_spawn"
    /\ StartWorker
    /\ stop_log' = Append(stop_log, "worker")
    /\ EscapeTest(relkey)
    /\ relkey' = ""
    /\ UNCHANGED <<hotkey_combo, current_keys, held, recording, audio_data,
                   stream, streams, stream_args, start_log, cb,
                   delivered, stopped,
                   typed, err, normVars, parseVars, cfgVars>>

Next ==
    \/ \E k \in RawKeys : on_press(k)
    \/ \E k \in RawKeys : on_release(k)
    \/ stop_stream
    \/ spawn_worker

Spec == CaptureInit /\ [][Next]_vars

---------------------------------------------------------------------------
(* SpecEvents: the listener of Spec with events whose normalization        *)
(* raises.  normalize_key is the first call inside the try of both         *)
(* handlers (it is the call the tests replace by one that raises); the     *)
(* combo tests that follow it are set inclusion and membership, which      *)
(* raise nothing.                                                          *)

\* on_press when normalize_key raises: the except clause logs the error and
\* the handler returns None.
on_press_raise(key) ==
    /\ pc = "idle"
    /\ held' = held \cup {key}
    /\ err' = {"press"}
    /\ start_log' = ""
    /\ UNCHANGED <<hotkey_combo, current_keys, recording, audio_data, stream,
                   streams, stream_args, cb, delivered, pc, relkey,
                   is_running, stopped, stop_log, workers, typed, normVars,
                   parseVars, cfgVars>>

\* on_release whose Escape test runs although normalize_key raised.
on_release_raise_escape(key) ==
    /\ pc = "idle"
    /\ key \in held
    /\ held' = held \ {key}
    /\ err' = {"release"}
    /\ start_log' = ""
    /\ EscapeTest(key)
    /\ UNCHANGED <<hotkey_combo, current_keys, recording, audio_data, stream,
                   streams, stream_args, cb, delivered, relkey,
                   stopped, stop_log, workers, typed, normVars, parseVars,
                   cfgVars>>

\* on_release when normalize_key raises: the except clause logs the error
\* and the handler returns None; the key is not discarded, stop_recording
\* is not called and the Escape test is not reached.
on_release_raise(key) ==
    /\ pc = "idle"
    /\ key \in held
    /\ held' = held \ {key}
    /\ err' = {"release"}
    /\ start_log' = ""
    /\ UNCHANGED <<hotkey_combo, current_keys, recording, audio_data, stream,
                   streams, stream_args, cb, delivered, pc, relkey,
                   is_running, stopped, stop_log, workers, typed, normVars,
                   parseVars, cfgVars>>

\* The keys of the default hotkey and Escape.
EventKeys == {"ctrl_l", "cmd", "esc"}

EventsInit ==
    /\ hotkey_combo = parse_hotkey(default_config["hotkey"])
    /\ CapInit
    /\ NormIdle
    /\ ParseIdle
    /\ CfgIdle

EventsNext ==
    \/ \E k \in EventKeys : on_press(k)
    \/ \E k \in EventKeys : on_release(k)
    \/ stop_stream
    \/ spawn_worker
    \/ \E k \in EventKeys : on_press_raise(k)
    \/ \E k \in EventKeys : on_release_raise(k)

SpecEvents == EventsInit /\ [][EventsNext]_vars

---------------------------------------------------------------------------
(* SpecAudio: the audio delivery callbacks and the workers, interleaved    *)
(* with a listener whose hotkey is the single key "win".                   *)

\* The listener's variables, unchanged by the other threads.
listenerVars == <<hotkey_combo, current_keys, held, recording, stream, streams,
                  stream_args, pc, relkey, is_running, stopped, start_log,
                  stop_log, err>>

S_win == <<"w","i","n">>
AudioKeys == {"cmd"}

AudioInit ==
    /\ hotkey_combo = parse_hotkey(S_win)
    /\ CapInit
    /\ NormIdle
    /\ ParseIdle
    /\ CfgIdle

\* audio_callback is entered: the audio subsystem delivers a block of a
\* running stream (lines 329-330, the status test).  The block is late if
\* stop_recording has already cleared the flag for this stream.
cb_enter(s) ==
    /\ streams[s] = "active"
    /\ cb[s][1] = "idle"
    /\ delivered[s] < MaxBlocks
    /\ delivered' = [delivered EXCEPT ![s] = @ + 1]
    /\ cb' = [cb EXCEPT ![s] = <<"entered", s \in StoppedStreams>>]
    /\ UNCHANGED <<listenerVars, audio_data, workers, typed,
                   normVars, parseVars, cfgVars>>

\* audio_callback: if self.recording
cb_check(s) ==
    /\ cb[s][1] = "entered"
    /\ cb' = [cb EXCEPT ![s] = IF recording THEN <<"append", cb[s][2]>>
                                            ELSE <<"idle", FALSE>>]
    /\ UNCHANGED <<listenerVars, audio_data, delivered, workers, typed,
                   normVars, parseVars, cfgVars>>

\* audio_callback: self.audio_data.append(indata.copy())
cb_append(s) ==
    /\ cb[s][1] = "append"
    /\ audio_data' = Append(audio_data, <<s, cb[s][2]>>)
    /\ cb' = [cb EXCEPT ![s] = <<"idle", FALSE>>]
    /\ UNCHANGED <<listenerVars, delivered, workers, typed,
                   normVars, parseVars, cfgVars>>

\* process_audio, its first statement: if not self.audio_data: return
w_check(n) ==
    /\ workers[n].pc = "check"
    /\ workers' = [workers EXCEPT ![n].pc =
                     IF audio_data = <<>> THEN "done" ELSE "concat"]
    /\ UNCHANGED <<listenerVars, audio_data, cb, delivered, typed,
                   normVars, parseVars, cfgVars>>

\* process_audio: np.concatenate(self.audio_data) (it raises on an empty
\* list), then write_wav to the temporary file, which may raise with the
\* file created or not, and the test that the file exists.  An exception is
\* logged by the except clause and the finally clause follows.
w_concat(n) ==
    /\ workers[n].pc = "concat"
    /\ \/ /\ audio_data # <<>>
          /\ workers' = [workers EXCEPT ![n].pc = "transcribe",
                                        ![n].audio = audio_data,
                                        ![n].file = "exists"]
       \/ /\ audio_data = <<>>
          /\ workers' = [workers EXCEPT ![n].pc = "cleanup",
                                        ![n].failed = @ \cup {"concat"}]
       \/ /\ audio_data # <<>>
          /\ \E f \in {"none", "exists"} :
                workers' = [workers EXCEPT ![n].pc = "cleanup",
                                           ![n].audio = audio_data,
                                           ![n].file = f,
                                           ![n].failed = @ \cup {"write"}]
    /\ UNCHANGED <<listenerVars, audio_data, cb, delivered, typed,
                   normVars, parseVars, cfgVars>>

\* transcribe_audio up to the call result = self.whisper_model.transcribe(
\* audio_float, language=language): the file is read back and converted,
\* self.whisper_model is read and the call begins.  wavfile.read may raise:
\* transcribe_audio then logs the error and returns None, and process_audio
\* goes to its finally clause.
w_transcribe(n) ==
    /\ workers[n].pc = "transcribe"
    /\ \/ workers' = [workers EXCEPT ![n].called = TRUE,
                                     ![n].model = whisper_model,
                                     ![n].pc = "infer"]
       \/ workers' = [workers EXCEPT ![n].raised = TRUE,
                                     ![n].failed = @ \cup {"read"},
                                     ![n].pc = "cleanup"]
    /\ UNCHANGED <<listenerVars, audio_data, cb, delivered, typed,
                   normVars, parseVars, cfgVars>>

\* The end of the transcribe call with insert_text invoked after an
\* exception as well.
w_infer_raise_inserts(n) ==
    /\ workers[n].pc = "infer"
    /\ \/ \E t \in Texts :
             workers' = [workers EXCEPT
                 ![n].result = <<t>>,
                 ![n].text = Strip(t),
                 ![n].pc = IF Strip(t) # <<>> THEN "insert" ELSE "cleanup"]
       \/ workers' = [workers EXCEPT ![n].raised = TRUE,
                                     ![n].failed = @ \cup {"infer"},
                                     ![n].pc = "insert"]
    /\ UNCHANGED <<listenerVars, audio_data, cb, delivered, typed,
                   normVars, parseVars, cfgVars>>

\* The end of the transcribe call with the text returned as it is.
w_infer_unstripped(n) ==
    /\ workers[n].pc = "infer"
    /\ \/ \E t \in Texts :
             workers' = [workers EXCEPT
                 ![n].result = <<t>>,
                 ![n].text = t,
                 ![n].pc = "insert"]
       \/ workers' = [workers EXCEPT ![n].raised = TRUE,
                                     ![n].failed = @ \cup {"infer"},
                                     ![n].pc = "cleanup"]
    /\ UNCHANGED <<listenerVars, audio_data, cb, delivered, typed,
                   normVars, parseVars, cfgVars>>

\* The end of the transcribe call with an exception that ends the worker
\* before its finally clause.
w_infer_raise_skips_cleanup(n) ==
    /\ workers[n].pc = "infer"
    /\ \/ \E t \in Texts :
             workers' = [workers EXCEPT
                 ![n].result = <<t>>,
                 ![n].text = Strip(t),
                 ![n].pc = IF Strip(t) # <<>> THEN "insert" ELSE "cleanup"]
       \/ workers' = [workers EXCEPT ![n].raised = TRUE,
                                     ![n].failed = @ \cup {"infer"},
                                     ![n].pc = "done"]
    /\ UNCHANGED <<listenerVars, audio_data, cb, delivered, typed,
                   normVars, parseVars, cfgVars>>

\* The transcribe call ends.  It returns a result whose text is stripped and
\* returned to process_audio, which goes on to insert_text if the text is
\* not empty; or it raises, transcribe_audio logs the error and returns
\* None.  process_audio then goes to its finally clause.
w_infer(n) ==
    /\ workers[n].pc = "infer"
    /\ \/ \E t \in Texts :
             workers' = [workers EXCEPT
                 ![n].result = <<t>>,
                 ![n].text = Strip(t),
                 ![n].pc = IF Strip(t) # <<>> THEN "insert" ELSE "cleanup"]
       \/ workers' = [workers EXCEPT ![n].raised = TRUE,
                                     ![n].failed = @ \cup {"infer"},
                                     ![n].pc = "cleanup"]
    /\ UNCHANGED <<listenerVars, audio_data, cb, delivered, typed,
                   normVars, parseVars, cfgVars>>

\* insert_text with the exception of pyautogui.typewrite not caught: it
\* ends the worker thread.
w_insert_uncaught(n) ==
    /\ workers[n].pc = "insert"
    /\ \/ /\ workers' = [workers EXCEPT
                           ![n].pc = "cleanup",
                           ![n].inserted = Append(@, workers[n].text)]
          /\ typed' = Append(typed, <<n, workers[n].text>>)
       \/ /\ workers' = [workers EXCEPT
                           ![n].pc = "dead",
                           ![n].inserted = Append(@, workers[n].text),
                           ![n].failed = @ \cup {"inject"}]
          /\ typed' = typed
    /\ UNCHANGED <<listenerVars, audio_data, cb, delivered,
                   normVars, parseVars, cfgVars>>

\* insert_text(transcribed_text): pyautogui.typewrite(text); a failure is
\* logged and insert_text returns.
w_insert(n) ==
    /\ workers[n].pc = "insert"
    /\ \/ /\ workers' = [workers EXCEPT
                           ![n].pc = "cleanup",
                           ![n].inserted = Append(@, workers[n].text)]
          /\ typed' = Append(typed, <<n, workers[n].text>>)
       \/ /\ workers' = [workers EXCEPT
                           ![n].pc = "cleanup",
                           ![n].inserted = Append(@, workers[n].text),
                           ![n].failed = @ \cup {"inject"}]
          /\ typed' = typed
    /\ UNCHANGED <<listenerVars, audio_data, cb, delivered,
                   normVars, parseVars, cfgVars>>

\* process_audio, the finally clause: if temp_path is set and the file
\* exists, os.unlink(temp_path); a failure of the deletion is logged as a
\* warning.  process_audio returns.
w_cleanup(n) ==
    /\ workers[n].pc = "cleanup"
    /\ \/ workers' = [workers EXCEPT
                        ![n].pc = "done",
                        ![n].file = IF @ = "exists" THEN "removed" ELSE @]
       \/ /\ workers[n].file = "exists"
          /\ workers' = [workers EXCEPT ![n].pc = "done",
                                        ![n].failed = @ \cup {"unlink"}]
    /\ UNCHANGED <<listenerVars, audio_data, cb, delivered, typed,
                   normVars, parseVars, cfgVars>>

AudioNext ==
    \/ \E k \in AudioKeys : on_press(k)
    \/ \E k \in AudioKeys : on_release(k)
    \/ stop_stream
    \/ spawn_worker
    \/ \E s \in 1..MaxSessions : cb_enter(s)
    \/ \E s \in 1..MaxSessions : cb_check(s)
    \/ \E s \in 1..MaxSessions : cb_append(s)
    \/ \E n \in 1..MaxSessions : w_check(n)
    \/ \E n \in 1..MaxSessions : w_concat(n)
    \/ \E n \in 1..MaxSessions : w_transcribe(n)
    \/ \E n \in 1..MaxSessions : w_infer(n)
    \/ \E n \in 1..MaxSessions : w_insert(n)
    \/ \E n \in 1..MaxSessions : w_cleanup(n)

SpecAudio == AudioInit /\ [][AudioNext]_vars

---------------------------------------------------------------------------
(* Recordings as the workers see them: one fault-free recording from       *)
(* start_recording to the start of its worker, taken in one step.          *)

\* start_recording resets the frame sequence and runs the stream, the
\* callbacks append k blocks while the flag is set, stop_recording clears
\* the flag, stops and closes the stream and starts the worker.
record_session ==
    /\ pc = "idle"
    /\ ~recording
    /\ NewStream <= MaxSessions
    /\ \E k \in 0..MaxBlocks :
          /\ audio_data' = [b \in 1..k |-> <<NewStream, FALSE>>]
          /\ delivered' = [delivered EXCEPT ![NewStream] = k]
          /\ workers' = [workers EXCEPT ![Len(stopped) + 1] =
                           [NoWorker EXCEPT !.pc = "check", !.frames0 = k]]
    /\ stream' = NewStream
    /\ streams' = [streams EXCEPT ![NewStream] = "closed"]
    /\ stream_args' = [stream_args EXCEPT ![NewStream] = StreamArgs]
    /\ stopped' = Append(stopped, NewStream)
    /\ start_log' = "started"
    /\ stop_log' = <<"flag", "stream", "worker">>
    /\ err' = {}
    /\ UNCHANGED <<hotkey_combo, current_keys, held, recording, cb, pc, relkey,
                   is_running, typed, normVars, parseVars, cfgVars>>

---------------------------------------------------------------------------
(* SpecPipe: the workers of successive recordings.                          *)

PipeNext ==
    \/ record_session
    \/ \E n \in 1..MaxSessions : w_check(n)
    \/ \E n \in 1..MaxSessions : w_concat(n)
    \/ \E n \in 1..MaxSessions : w_transcribe(n)
    \/ \E n \in 1..MaxSessions : w_infer(n)
    \/ \E n \in 1..MaxSessions : w_insert(n)
    \/ \E n \in 1..MaxSessions : w_cleanup(n)

SpecPipe == AudioInit /\ [][PipeNext]_vars

---------------------------------------------------------------------------
(* SpecFrames: the listener driven by the one-key hotkey, interleaved with *)
(* the audio delivery callbacks, so that recordings hold frames when the   *)
(* listener's handlers run.  The workers are started and left at their     *)
(* first step.                                                             *)

FramesNext ==
    \/ \E k \in AudioKeys : on_press(k)
    \/ \E k \in AudioKeys : on_release(k)
    \/ stop_stream
    \/ spawn_worker
    \/ \E s \in 1..MaxSessions : cb_enter(s)
    \/ \E s \in 1..MaxSessions : cb_check(s)
    \/ \E s \in 1..MaxSessions : cb_append(s)

SpecFrames == AudioInit /\ [][FramesNext]_vars

---------------------------------------------------------------------------
(* SpecConfig: configuration changes at run time.  The tray and the         *)
(* settings window start one thread per change; the threads run            *)
(* _on_model_change, _on_device_change and _on_config_change step by step, *)
(* interleaved with each other.  self.whisper_model is the model instance  *)
(* a worker's transcribe call runs on (w_transcribe reads it at the call). *)

\* Configurations a collaborator passes to on_config_change: the settings
\* window's copy with one field changed, and a partial update.
U_hotkey == [default_config EXCEPT !.hotkey = S_ctrl_a]
U_model == [default_config EXCEPT !.model = "small"]
U_device == [default_config EXCEPT !.microphone_device = "2"]
U_language == [language |-> "en"]
NewConfigs == {U_hotkey, U_model, U_device, U_language}

Spawned == {i \in 1..MaxChanges : chg[i].kind # "none"}
NewThread == Cardinality(Spawned) + 1

\* Variables the configuration change threads leave alone.
otherVars == <<capVars, normVars, parseVars, sample_rate>>

\* SettingsWindow._config_changed: a thread calls
\* on_config_change(self.config.copy()).
gui_config_changed(d) ==
    /\ NewThread <= MaxChanges
    /\ chg' = [chg EXCEPT ![NewThread] =
                 [NoChange EXCEPT !.kind = "config", !.pc = "device",
                                  !.update = d]]
    /\ dicts' = [dicts EXCEPT ![NewThread] = d]
    /\ UNCHANGED <<hotkey_combo, config, saved_config, whisper_model,
                   previous_device, alerts, loaded, otherVars>>

\* TrayManager._on_model_select: a thread calls on_model_change(model).
tray_on_model_select(model) ==
    /\ NewThread <= MaxChanges
    /\ chg' = [chg EXCEPT ![NewThread] =
                 [NoChange EXCEPT !.kind = "model", !.arg = model,
                                  !.pc = "check"]]
    /\ UNCHANGED <<hotkey_combo, config, dicts, saved_config, whisper_model,
                   previous_device, alerts, loaded, otherVars>>

\* TrayManager._on_device_select: a thread calls
\* on_device_change(device_index).
tray_on_device_select(device_index) ==
    /\ NewThread <= MaxChanges
    /\ chg' = [chg EXCEPT ![NewThread] =
                 [NoChange EXCEPT !.kind = "device", !.arg = device_index,
                                  !.pc = "check"]]
    /\ UNCHANGED <<hotkey_combo, config, dicts, saved_config, whisper_model,
                   previous_device, alerts, loaded, otherVars>>

\* _on_config_change, the device part: self.config becomes new_config in
\* both branches; a changed device is validated by _init_microphone.
cc_device(i) ==
    LET new_config == dicts[i]
        old_device == Get(dicts[config], "microphone_device", "null")
        new_device == Get(new_config, "microphone_device", "null")
    IN  /\ chg[i].kind = "config"
        /\ chg[i].pc = "device"
        /\ config' = i
        /\ previous_device' = IF old_device # new_device THEN old_device
                                                         ELSE previous_device
        /\ chg' = [chg EXCEPT
             ![i].pc = IF old_device # new_device THEN "initmic" ELSE "model",
             ![i].before = dicts[config],
             ![i].changed = (dicts[config] # new_config)]
        /\ UNCHANGED <<hotkey_combo, dicts, saved_config, whisper_model,
                       alerts, loaded, otherVars>>

\* The test stream _init_microphone creates for the device d at this moment.
ProbeNow(d) ==
    [device |-> d,
     samplerate |-> sample_rate,
     inflight |-> (recording \/ pc \in {"stop_stream", "stop_spawn"})]

\* _init_microphone(is_startup=False): sd.InputStream(samplerate=
\* self.sample_rate, channels=1, device=device_idx) on the configured device,
\* whether or not a recording is in progress; the test stream opens and is
\* closed, or the failure is logged and shown by show_mic_error.
init_microphone(i) ==
    /\ chg[i].pc = "initmic"
    /\ \/ alerts' = alerts
       \/ alerts' = Append(alerts, <<i, "mic_error">>)
    /\ chg' = [chg EXCEPT
         ![i].pc = IF chg[i].kind = "config" THEN "info" ELSE "save",
         ![i].probe =
            ProbeNow(Get(dicts[config], "microphone_device", "null"))]
    /\ UNCHANGED <<hotkey_combo, config, dicts, saved_config, whisper_model,
                   previous_device, loaded, otherVars>>

\* _on_config_change after _init_microphone: the names of the old and the
\* new device differ, show_info("Microphone Changed").
cc_show_info(i) ==
    /\ chg[i].pc = "info"
    /\ alerts' = Append(alerts, <<i, "info">>)
    /\ chg' = [chg EXCEPT ![i].pc = "model"]
    /\ UNCHANGED <<hotkey_combo, config, dicts, saved_config, whisper_model,
                   previous_device, loaded, otherVars>>

\* _on_config_change, the model part: old_model is read from self.config,
\* new_model from new_config.
cc_model(i) ==
    LET old_model == Get(dicts[config], "model", "base")
        new_model == Get(dicts[i], "model", "base")
    IN  /\ chg[i].pc = "model"
        /\ chg' = [chg EXCEPT ![i].pc = IF old_model # new_model THEN "load"
                                                                  ELSE "hotkey"]
        /\ UNCHANGED <<hotkey_combo, config, dicts, saved_config,
                       whisper_model, previous_device, alerts, loaded,
                       otherVars>>

\* _load_whisper_model begins: model_name is read from self.config and
\* whisper.load_model(model_name) is called.
load_begin(i) ==
    /\ chg[i].pc = "load"
    /\ chg' = [chg EXCEPT ![i].pc = "loading",
                          ![i].name = Get(dicts[config], "model", "base")]
    /\ UNCHANGED <<hotkey_combo, config, dicts, saved_config, whisper_model,
                   previous_device, alerts, loaded, otherVars>>

\* The model id the change of thread i asks for.
Requested(i) ==
    IF chg[i].kind = "model" THEN chg[i].arg
                             ELSE Get(dicts[i], "model", "base")

\* whisper.load_model ends.  It returns and self.whisper_model is assigned;
\* or it raises, _load_whisper_model logs the error and raises again, no
\* caller catches it and the thread ends.
load_end(i) ==
    /\ chg[i].pc = "loading"
    /\ \/ /\ whisper_model' = chg[i].name
          /\ loaded' = Append(loaded, <<i, Requested(i), chg[i].name>>)
          /\ chg' = [chg EXCEPT ![i].pc = IF chg[i].kind = "config"
                                          THEN "hotkey" ELSE "save"]
       \/ /\ chg' = [chg EXCEPT ![i].pc = "dead", ![i].raised = "load_model"]
          /\ UNCHANGED <<whisper_model, loaded>>
    /\ UNCHANGED <<hotkey_combo, config, dicts, saved_config,
                   previous_device, alerts, otherVars>>

\* _on_config_change, the hotkey part: old_hotkey is read from self.config,
\* new_hotkey from new_config; parse_hotkey(None) raises.
cc_hotkey(i) ==
    LET old == dicts[config]
        new == dicts[i]
        differ == \/ ("hotkey" \in DOMAIN old) # ("hotkey" \in DOMAIN new)
                  \/ /\ "hotkey" \in DOMAIN old
                     /\ "hotkey" \in DOMAIN new
                     /\ old["hotkey"] # new["hotkey"]
    IN  /\ chg[i].pc = "hotkey"
        /\ IF ~differ
           THEN /\ chg' = [chg EXCEPT ![i].pc = "save"]
                /\ UNCHANGED hotkey_combo
           ELSE IF "hotkey" \in DOMAIN new
           THEN /\ hotkey_combo' = parse_hotkey(new["hotkey"])
                /\ chg' = [chg EXCEPT ![i].pc = "save"]
           ELSE /\ chg' = [chg EXCEPT ![i].pc = "dead",
                                      ![i].raised = "parse_hotkey"]
                /\ UNCHANGED hotkey_combo
        /\ UNCHANGED <<config, dicts, saved_config, whisper_model,
                       previous_device, alerts, loaded, otherVars>>

\* _on_model_change up to the load: a model other than the configured one
\* is written into self.config.
mc_check(i) ==
    /\ chg[i].kind = "model"
    /\ chg[i].pc = "check"
    /\ IF Get(dicts[config], "model", "null") # chg[i].arg
       THEN /\ dicts' = [dicts EXCEPT ![config] = SetItem(@, "model", chg[i].arg)]
            /\ chg' = [chg EXCEPT ![i].pc = "load", ![i].changed = TRUE]
       ELSE /\ chg' = [chg EXCEPT ![i].pc = "done"]
            /\ UNCHANGED dicts
    /\ UNCHANGED <<hotkey_combo, config, saved_config, whisper_model,
                   previous_device, alerts, loaded, otherVars>>

\* _on_device_change up to _init_microphone: a device other than the
\* configured one is written into self.config.
dc_check(i) ==
    LET old_device == Get(dicts[config], "microphone_device", "null")
    IN  /\ chg[i].kind = "device"
        /\ chg[i].pc = "check"
        /\ IF old_device # chg[i].arg
           THEN /\ previous_device' = old_device
                /\ dicts' = [dicts EXCEPT ![config] =
                               SetItem(@, "microphone_device", chg[i].arg)]
                /\ chg' = [chg EXCEPT ![i].pc = "initmic", ![i].changed = TRUE]
           ELSE /\ chg' = [chg EXCEPT ![i].pc = "done"]
                /\ UNCHANGED <<dicts, previous_device>>
        /\ UNCHANGED <<hotkey_combo, config, saved_config, whisper_model,
                       alerts, loaded, otherVars>>

\* save_config whose failed write puts the contents of the file back into
\* self.config.
save_config_failure_reloads(i) ==
    LET config1 == IF chg[i].kind = "config" THEN i ELSE config
    IN  /\ chg[i].pc = "save"
        /\ config' = config1
        /\ \/ /\ saved_config' = dicts[config1]
              /\ chg' = [chg EXCEPT ![i].pc = "done", ![i].saved = TRUE]
              /\ UNCHANGED dicts
           \/ /\ saved_config' = saved_config
              /\ dicts' = [dicts EXCEPT ![config1] = saved_config]
              /\ chg' = [chg EXCEPT ![i].pc = "done", ![i].saved = TRUE,
                                    ![i].save_error = TRUE]
        /\ UNCHANGED <<hotkey_combo, whisper_model, previous_device,
                       alerts, loaded, otherVars>>

\* The end of the three handlers: _on_config_change assigns
\* self.config = new_config once more; save_config writes self.config to the
\* file, or fails and logs the error.
save_config(i) ==
    LET config1 == IF chg[i].kind = "config" THEN i ELSE config
    IN  /\ chg[i].pc = "save"
        /\ config' = config1
        /\ \/ /\ saved_config' = dicts[config1]
              /\ chg' = [chg EXCEPT ![i].pc = "done", ![i].saved = TRUE]
           \/ /\ saved_config' = saved_config
              /\ chg' = [chg EXCEPT ![i].pc = "done", ![i].saved = TRUE,
                                    ![i].save_error = TRUE]
        /\ UNCHANGED <<hotkey_combo, dicts, whisper_model, previous_device,
                       alerts, loaded, otherVars>>

ConfigInit ==
    /\ hotkey_combo = parse_hotkey(default_config["hotkey"])
    /\ CapInit
    /\ NormIdle
    /\ ParseIdle
    /\ CfgIdle

ConfigNext ==
    \/ \E d \in NewConfigs : gui_config_changed(d)
    \/ \E m \in Models : tray_on_model_select(m)
    \/ \E d \in Devices : tray_on_device_select(d)
    \/ \E i \in 1..MaxChanges : cc_device(i)
    \/ \E i \in 1..MaxChanges : init_microphone(i)
    \/ \E i \in 1..MaxChanges : cc_show_info(i)
    \/ \E i \in 1..MaxChanges : cc_model(i)
    \/ \E i \in 1..MaxChanges : load_begin(i)
    \/ \E i \in 1..MaxChanges : load_end(i)
    \/ \E i \in 1..MaxChanges : cc_hotkey(i)
    \/ \E i \in 1..MaxChanges : mc_check(i)
    \/ \E i \in 1..MaxChanges : dc_check(i)
    \/ \E i \in 1..MaxChanges : save_config(i)

SpecConfig == ConfigInit /\ [][ConfigNext]_vars

---------------------------------------------------------------------------
(* SpecTray: the threads the tray menu starts for _on_model_change and     *)
(* _on_device_change, step by step and interleaved with each other.        *)

TrayNext ==
    \/ \E m \in Models : tray_on_model_select(m)
    \/ \E d \in Devices : tray_on_device_select(d)
    \/ \E i \in 1..MaxChanges : mc_check(i)
    \/ \E i \in 1..MaxChanges : dc_check(i)
    \/ \E i \in 1..MaxChanges : init_microphone(i)
    \/ \E i \in 1..MaxChanges : load_begin(i)
    \/ \E i \in 1..MaxChanges : load_end(i)
    \/ \E i \in 1..MaxChanges : save_config(i)

SpecTray == ConfigInit /\ [][TrayNext]_vars

---------------------------------------------------------------------------
(* SpecDevice: the listener driven by a one-key hotkey, interleaved with   *)
(* the threads that change the microphone device (tray and settings        *)
(* window) and the sample rate (settings window).  Each thread runs its    *)
(* handler in one step and its save_config succeeds; SpecConfig            *)
(* interleaves the handlers' steps and has the failures of save_config.    *)

\* The configuration file names the one-key hotkey "win".
D_config == [default_config EXCEPT !.hotkey = S_win]
\* The configuration passed to on_config_change: the one of the file with
\* the sample rate changed.  Its device is the default one, so it changes
\* the device too when the tray has selected device 2 before.
D_rate == [D_config EXCEPT !.sample_rate = 44100]
DeviceConfigs == {D_rate}

DeviceInit ==
    /\ hotkey_combo = parse_hotkey(D_config["hotkey"])
    /\ CapInit
    /\ NormIdle
    /\ ParseIdle
    /\ CfgIdleWith(D_config)

\* FnwisprClient._on_device_change(device_idx), the whole handler in one
\* step of its thread: the device is written into self.config,
\* _init_microphone creates its test stream (which opens, or fails and is
\* shown by show_mic_error) and save_config writes the file.
on_device_change(device_idx) ==
    LET old_device == Get(dicts[config], "microphone_device", "null")
        i == NewThread
    IN  /\ i <= MaxChanges
        /\ IF old_device # device_idx
           THEN /\ previous_device' = old_device
                /\ dicts' = [dicts EXCEPT ![config] =
                               SetItem(@, "microphone_device", device_idx)]
                /\ \/ alerts' = alerts
                   \/ alerts' = Append(alerts, <<i, "mic_error">>)
                /\ saved_config' = dicts'[config]
                /\ chg' = [chg EXCEPT ![i] =
                             [NoChange EXCEPT !.kind = "device",
                                              !.arg = device_idx,
                                              !.pc = "done",
                                              !.changed = TRUE,
                                              !.saved = TRUE,
                                              !.probe = ProbeNow(device_idx)]]
           ELSE /\ chg' = [chg EXCEPT ![i] =
                             [NoChange EXCEPT !.kind = "device",
                                              !.arg = device_idx,
                                              !.pc = "done"]]
                /\ UNCHANGED <<previous_device, dicts, alerts, saved_config>>
        /\ UNCHANGED <<hotkey_combo, config, whisper_model, loaded, otherVars>>

\* FnwisprClient._on_config_change(new_config), the whole handler in one
\* step of its thread, for a new_config that holds every field.  A changed
\* device is validated by _init_microphone and announced by show_info;
\* self.config is new_config by then, so the model and the hotkey compare
\* equal; save_config writes the file.  Nothing assigns self.sample_rate.
on_config_change(new_config) ==
    LET old_device == Get(dicts[config], "microphone_device", "null")
        new_device == Get(new_config, "microphone_device", "null")
        i == NewThread
    IN  /\ i <= MaxChanges
        /\ dicts' = [dicts EXCEPT ![i] = new_config]
        /\ config' = i
        /\ IF old_device # new_device
           THEN /\ previous_device' = old_device
                /\ \/ alerts' = Append(alerts, <<i, "info">>)
                   \/ alerts' = alerts \o <<<<i, "mic_error">>, <<i, "info">>>>
           ELSE UNCHANGED <<previous_device, alerts>>
        /\ saved_config' = new_config
        /\ chg' = [chg EXCEPT ![i] =
                     [NoChange EXCEPT
                        !.kind = "config",
                        !.pc = "done",
                        !.update = new_config,
                        !.before = dicts[config],
                        !.changed = (dicts[config] # new_config),
                        !.saved = TRUE,
                        !.probe = IF old_device # new_device
                                  THEN ProbeNow(new_device) ELSE NoProbe]]
        /\ UNCHANGED <<hotkey_combo, whisper_model, loaded, otherVars>>

DeviceNext ==
    \/ \E k \in AudioKeys : on_press(k)
    \/ \E k \in AudioKeys : on_release(k)
    \/ stop_stream
    \/ spawn_worker
    \/ \E d \in Devices : on_device_change(d)
    \/ \E d \in DeviceConfigs : on_config_change(d)

SpecDevice == DeviceInit /\ [][DeviceNext]_vars

---------------------------------------------------------------------------
(* SpecWindow: the handlers of SpecDevice with the settings window opened  *)
(* at startup: SettingsWindow.__init__ copies the configuration, and each  *)
(* change made in the window sends a copy of the window's dict.            *)

\* The dict the window sends when the language is set to English: the
\* configuration as it was when the window was opened, with that field.
W_language == [D_config EXCEPT !.language = "en"]
WindowConfigs == {W_language}

WindowNext ==
    \/ \E k \in AudioKeys : on_press(k)
    \/ \E k \in AudioKeys : on_release(k)
    \/ stop_stream
    \/ spawn_worker
    \/ \E d \in Devices : on_device_change(d)
    \/ \E d \in WindowConfigs : on_config_change(d)

SpecWindow == DeviceInit /\ [][WindowNext]_vars

---------------------------------------------------------------------------
(* SpecStartup: main() from the call of FnwisprClient() to the start of    *)
(* the listener thread in run(), for every state of the configuration file *)
(* and of the config.json of the old location, and every outcome of the    *)
(* model load, the microphone test and the writes.                         *)

\* Objects a valid configuration file holds.
ValidConfigs == {default_config, D_config,
                 [default_config EXCEPT !.model = "small"]}
Files ==
    {File(k, NoDict) : k \in {"missing", "invalid", "not_object"}}
    \cup {File("valid", c) : c \in ValidConfigs}

\* Variables startup leaves alone.
startOther == <<capVars, nk_key, nk_result, wav_dtype, wav_sample, audio_float,
                parseVars, saved_config, chg, loaded>>

StartupInit ==
    /\ st_pc = "path"
    /\ st_provided \in BOOLEAN
    /\ st_file \in Files
    /\ st_legacy \in Files
    /\ st_source = ""
    /\ st_log = {}
    /\ hotkey_combo = {}
    /\ config = 0
    /\ dicts = [i \in 0..MaxChanges |-> NoDict]
    /\ saved_config = NoDict
    /\ whisper_model = ""
    /\ sample_rate = 0
    /\ previous_device = "null"
    /\ alerts = <<>>
    /\ chg = [i \in 1..MaxChanges |-> NoChange]
    /\ loaded = <<>>
    /\ nk_key = ""
    /\ nk_result = "pending"
    /\ SamplesIdle
    /\ ExitNotStarted
    /\ CapInit
    /\ ParseIdle

\* _get_config_path: a given path is returned as it is.  Otherwise the
\* config.json of the old location is migrated when it exists and the file
\* at the new path does not: it is read, and written to the new path; an
\* exception of the read (invalid JSON, not an object) or of the write is
\* logged and nothing is written.
get_config_path ==
    /\ st_pc = "path"
    /\ st_pc' = "load_config"
    /\ IF ~st_provided /\ st_legacy.kind # "missing" /\ st_file.kind = "missing"
       THEN IF st_legacy.kind = "valid"
            THEN \/ st_file' = st_legacy /\ st_log' = st_log
                 \/ st_file' = st_file /\ st_log' = st_log \cup {"migrate"}
            ELSE st_file' = st_file /\ st_log' = st_log \cup {"migrate"}
       ELSE UNCHANGED <<st_file, st_log>>
    /\ UNCHANGED <<hotkey_combo, st_provided, st_legacy, st_source, config,
                   dicts, whisper_model, sample_rate, previous_device, alerts,
                   startOther, exitVars>>

\* load_config: the object of the file; FileNotFoundError creates the
\* default configuration (create_default_config returns it whether or not
\* its write succeeded); json.JSONDecodeError ends the process with
\* sys.exit(1).
load_config ==
    /\ st_pc = "load_config"
    /\ CASE st_file.kind = "valid" ->
              /\ dicts' = [dicts EXCEPT ![0] = st_file.content]
              /\ st_source' = "file"
              /\ st_pc' = "fields"
              /\ UNCHANGED <<st_file, st_log>>
         [] st_file.kind = "not_object" ->
              /\ st_source' = "not_object"
              /\ st_pc' = "fields"
              /\ UNCHANGED <<dicts, st_file, st_log>>
         [] st_file.kind = "missing" ->
              /\ dicts' = [dicts EXCEPT ![0] = default_config]
              /\ st_source' = "default"
              /\ st_pc' = "fields"
              /\ \/ /\ st_file' = File("valid", default_config)
                    /\ st_log' = st_log \cup {"not_found"}
                 \/ /\ st_file' = st_file
                    /\ st_log' = st_log \cup {"not_found", "save_default"}
         [] st_file.kind = "invalid" ->
              /\ st_pc' = "aborted"
              /\ st_log' = st_log \cup {"invalid_json"}
              /\ UNCHANGED <<dicts, st_file, st_source>>
    /\ UNCHANGED <<hotkey_combo, st_provided, st_legacy, config,
                   whisper_model, sample_rate, previous_device, alerts,
                   startOther, exitVars>>

\* __init__ after load_config: sample_rate, previous_device and the hotkey
\* combo are read from self.config; self.config.get raises on a value that
\* is not a dict and main() ends the process.
init_fields ==
    /\ st_pc = "fields"
    /\ IF st_source = "not_object"
       THEN /\ st_pc' = "aborted"
            /\ st_log' = st_log \cup {"fatal"}
            /\ UNCHANGED <<hotkey_combo, sample_rate, previous_device>>
       ELSE /\ st_pc' = "model"
            /\ sample_rate' = Get(dicts[config], "sample_rate", 16000)
            /\ previous_device' = Get(dicts[config], "microphone_device", "null")
            /\ hotkey_combo' = parse_hotkey(Get(dicts[config], "hotkey", S_ctrl_win))
            /\ UNCHANGED st_log
    /\ UNCHANGED <<st_provided, st_file, st_legacy, st_source, config, dicts,
                   whisper_model, alerts, startOther, exitVars>>

\* __init__: _load_whisper_model().  A failed load is logged and raised
\* again; main() logs it and ends the process.
init_load_model ==
    /\ st_pc = "model"
    /\ \/ /\ whisper_model' = Get(dicts[config], "model", "base")
          /\ st_pc' = "mic"
          /\ UNCHANGED st_log
       \/ /\ st_pc' = "aborted"
          /\ st_log' = st_log \cup {"load_model", "fatal"}
          /\ UNCHANGED whisper_model
    /\ UNCHANGED <<hotkey_combo, st_provided, st_file, st_legacy, st_source,
                   config, dicts, sample_rate, previous_device, alerts,
                   startOther, exitVars>>

\* __init__: _init_microphone(is_startup=True).  A device that does not
\* open is shown by show_mic_error and construction goes on.
init_mic ==
    /\ st_pc = "mic"
    /\ st_pc' = "constructed"
    /\ \/ alerts' = alerts
       \/ alerts' = Append(alerts, <<0, "mic_error">>)
    /\ UNCHANGED <<hotkey_combo, st_provided, st_file, st_legacy, st_source,
                   st_log, config, dicts, whisper_model, sample_rate,
                   previous_device, startOther, exitVars>>

\* run() up to the start of the listener thread, which enters its loop.
run_start_listener ==
    /\ st_pc = "constructed"
    /\ st_pc' = "listening"
    /\ ex_listener' = "polling"
    /\ UNCHANGED <<hotkey_combo, st_provided, st_file, st_legacy, st_source,
                   st_log, config, dicts, whisper_model, sample_rate,
                   previous_device, alerts, startOther, ex_tray, ex_pending,
                   ex_delivered>>

StartupNext ==
    \/ get_config_path
    \/ load_config
    \/ init_fields
    \/ init_load_model
    \/ init_mic
    \/ run_start_listener

SpecStartup == StartupInit /\ [][StartupNext]_vars

---------------------------------------------------------------------------
(* SpecExit: run() from the start of the listener thread on: the listener  *)
(* thread's loop and its key handlers, the tray loop, and the threads the  *)
(* tray's Exit item starts.  SpecExitFair adds that every thread that can  *)
(* take a step eventually does.                                            *)

ExitKeys == {"cmd", "esc"}

\* The variables of the listener's handlers except self.is_running.
capOther == <<current_keys, held, recording, audio_data, stream, streams,
              stream_args, cb, delivered, pc, relkey, stopped, start_log,
              stop_log, workers, typed, err>>

ExitInit ==
    /\ hotkey_combo = parse_hotkey(S_win)
    /\ CapInit
    /\ ParseIdle
    /\ CfgIdle
    /\ nk_key = ""
    /\ nk_result = "pending"
    /\ SamplesIdle
    /\ ExitNotStarted
    /\ st_pc = "constructed"
    /\ st_provided = TRUE
    /\ st_file = File("valid", default_config)
    /\ st_legacy = File("missing", NoDict)
    /\ st_source = "file"
    /\ st_log = {}

\* run(): self.tray_manager.run().  TrayManager.run creates the icon and
\* calls self.icon.run(), which blocks in the icon's loop; or creating or
\* running the icon raises, the exception is logged and run returns.
tray_run ==
    /\ st_pc = "listening"
    /\ ex_tray = "init"
    /\ ex_tray' \in {"running", "ended"}
    /\ UNCHANGED <<hotkey_combo, capVars, nk_key, nk_result, wav_dtype,
                   wav_sample, audio_float, startVars, ex_listener,
                   ex_pending, ex_delivered, parseVars, cfgVars>>

\* TrayManager._on_exit_click: a thread is started for on_exit.
on_exit_click ==
    /\ st_pc = "listening"
    /\ ex_tray = "running"
    /\ ex_pending + ex_delivered < MaxExitClicks
    /\ ex_pending' = ex_pending + 1
    /\ UNCHANGED <<hotkey_combo, capVars, nk_key, nk_result, wav_dtype,
                   wav_sample, audio_float, startVars, ex_tray, ex_listener,
                   ex_delivered, parseVars, cfgVars>>

\* The thread runs on_exit, which run() gave to the TrayManager:
\* lambda: setattr(self, 'is_running', False).
on_exit ==
    /\ st_pc = "listening"
    /\ ex_pending > 0
    /\ is_running' = FALSE
    /\ ex_pending' = ex_pending - 1
    /\ ex_delivered' = ex_delivered + 1
    /\ UNCHANGED <<hotkey_combo, capOther, nk_key, nk_result, wav_dtype,
                   wav_sample, audio_float, startVars, ex_tray, ex_listener,
                   parseVars, cfgVars>>

\* _keyboard_listener_thread: while self.is_running: time.sleep(0.1).  The
\* loop ends once the flag is false; the with block stops the listener.
listener_poll ==
    /\ st_pc = "listening"
    /\ ex_listener = "polling"
    /\ ~is_running
    /\ ex_listener' = "ended"
    /\ UNCHANGED <<hotkey_combo, capVars, nk_key, nk_result, wav_dtype,
                   wav_sample, audio_float, startVars, ex_tray, ex_pending,
                   ex_delivered, parseVars, cfgVars>>

\* run() after self.tray_manager.run() has returned: it logs "fnwispr
\* stopped" and returns to main(), and the process ends with its daemon
\* threads.
run_return ==
    /\ st_pc = "listening"
    /\ ex_tray = "ended"
    /\ st_pc' = "returned"
    /\ UNCHANGED <<hotkey_combo, capVars, nk_key, nk_result, wav_dtype,
                   wav_sample, audio_float, st_provided, st_file, st_legacy,
                   st_source, st_log, exitVars, parseVars, cfgVars>>

\* The key handlers run while the listener is active and the process lives.
listener_on_press(key) ==
    /\ st_pc = "listening"
    /\ ex_listener = "polling"
    /\ on_press(key)

listener_on_release(key) ==
    /\ st_pc = "listening"
    /\ ex_listener = "polling"
    /\ on_release(key)

listener_stop_stream == st_pc = "listening" /\ stop_stream

listener_spawn_worker == st_pc = "listening" /\ spawn_worker

ExitNext ==
    \/ run_start_listener
    \/ tray_run
    \/ on_exit_click
    \/ on_exit
    \/ listener_poll
    \/ run_return
    \/ \E k \in ExitKeys : listener_on_press(k)
    \/ \E k \in ExitKeys : listener_on_release(k)
    \/ listener_stop_stream
    \/ listener_spawn_worker

SpecExit == ExitInit /\ [][ExitNext]_vars

\* Every thread is scheduled: the main thread, the listener thread and the
\* threads of the Exit clicks take their next step when they can.
SpecExitFair ==
    /\ ExitInit
    /\ [][ExitNext]_vars
    /\ WF_vars(run_start_listener)
    /\ WF_vars(tray_run)
    /\ WF_vars(on_exit)
    /\ WF_vars(listener_poll)
    /\ WF_vars(run_return)
    /\ WF_vars(listener_stop_stream)
    /\ WF_vars(listener_spawn_worker)

---------------------------------------------------------------------------
(* Claims about the hotkey state machine (Spec). *)

\* A StartCapture step: the flag goes from false to true and a new stream
\* is opened and running.
StartCapture ==
    /\ ~recording
    /\ recording'
    /\ stream' # stream
    /\ streams'[stream'] = "active"

PressStep == \E k \in RawKeys : on_press(k)

\* Streams that were opened and started by a StartCapture.
Started == {s \in 1..MaxSessions : streams[s] \in {"active", "stopped", "closed"}}

\* C1 as stated: a press starts a capture exactly when, after the
\* normalized key is added, the combo is a subset of the pressed-key set;
\* and no two StartCaptures occur without a StopCapture between them.
C1_Original ==
    /\ [][PressStep => (StartCapture <=> hotkey_combo \subseteq current_keys')]_vars
    /\ [](Cardinality(Started) <= Len(stopped) + 1)

\* C1 as amended: a press starts a capture exactly when, after the
\* normalized key is added, the combo is a subset of the pressed-key set,
\* no recording was already in progress, and opening and starting the
\* stream raised no error; and no two StartCaptures occur without a
\* StopCapture between them.
C1_Amended ==
    /\ [][PressStep =>
            (StartCapture <=> /\ hotkey_combo \subseteq current_keys'
                              /\ ~recording
                              /\ err' = {})]_vars
    /\ [](Cardinality(Started) <= Len(stopped) + 1)

\* A second capture runs, started by a combo completion after a stop.
C1_Witness ==
    /\ recording
    /\ Len(stopped) = 1
    /\ hotkey_combo \subseteq current_keys
    /\ Cardinality(Started) = 2

WorkersStarted == {n \in 1..MaxSessions : workers[n].pc # "none"}

\* C2: while Recording, the release of a key whose normalized form is in
\* the combo begins stop_recording exactly once: the flag is cleared, and
\* when the handler has returned exactly one worker has been started for
\* each stop.
C2_OneStop ==
    /\ [][\A k \in RawKeys :
            (on_release(k) /\ recording
                /\ normalize_key(k, hotkey_combo) \in hotkey_combo)
            => /\ ~recording'
               /\ Len(stopped') = Len(stopped) + 1
               /\ pc' = "stop_stream"]_vars
    /\ [](/\ pc \in {"idle", "dead"} =>
                Cardinality(WorkersStarted) = Len(stopped)
          /\ pc \in {"stop_stream", "stop_spawn"} =>
                /\ ~recording
                /\ Cardinality(WorkersStarted) = Len(stopped) - 1)

\* The handler of a combo-key release has returned, one combo key is still
\* held, and one stop and one worker are counted.
C2_Witness ==
    /\ pc = "idle"
    /\ Len(stopped) = 1
    /\ Cardinality(WorkersStarted) = 1
    /\ ~recording
    /\ hotkey_combo \cap current_keys # {}

\* C3: once Escape has ended the listening session, no recording is in
\* progress and the stream is released.
C3_EscapeStops ==
    pc = "dead" =>
        /\ ~is_running
        /\ ~recording
        /\ (stream = 0 \/ streams[stream] # "active")

\* C4: at most one capture input stream is open.
C4_OneStream == Cardinality(OpenStreams) <= 1

\* C6: stop_recording clears the flag, then stops and closes the stream,
\* then starts the worker; the step that starts the worker returns to the
\* listener with the worker not yet run.
C6_StopOrder ==
    /\ [](/\ stop_log \in {<<>>, <<"flag">>, <<"flag", "stream">>,
                            <<"flag", "stream", "worker">>}
          /\ pc = "stop_stream" => stop_log = <<"flag">> /\ ~recording
          /\ pc = "stop_spawn" =>
                /\ stop_log = <<"flag", "stream">>
                /\ ~recording
                /\ workers[Len(stopped)].pc = "none")
    /\ [][workers' # workers =>
            /\ stop_log' = <<"flag", "stream", "worker">>
            /\ pc' \in {"idle", "dead"}
            /\ workers'[Len(stopped)].pc = "check"]_vars

\* stop_recording has returned, its worker has not run, and the listener
\* has already started the next recording.
C6_Witness ==
    /\ pc = "idle"
    /\ stop_log = <<"flag", "stream", "worker">>
    /\ workers[1].pc = "check"
    /\ recording

---------------------------------------------------------------------------
(* Claims about normalize_key (SpecNorm). *)

\* C7: for each modifier m of ctrl, alt, shift and super (cmd), when the
\* combo contains m, both side variants of m normalize to m.
C7_VariantsToBase ==
    nk_result # "pending" =>
        \A m \in Modifiers :
            (m \in hotkey_combo /\ nk_key \in Variants(m)) => nk_result = m

\* C8: a side variant whose side-agnostic form is not in the combo, and
\* every key that is not a side variant, is returned unchanged; every call
\* returns a key.
C8_PassThrough ==
    /\ nk_result = "pending" => ENABLED NormalizeCall
    /\ nk_result # "pending" =>
        /\ nk_result \in Keys
        /\ \A m \in Modifiers :
              (nk_key \in Variants(m) /\ m \notin hotkey_combo)
              => nk_result = nk_key
        /\ nk_key \notin SideKeys => nk_result = nk_key

\* Only the left ctrl variant is in the combo and right ctrl was normalized.
C8_Witness ==
    /\ nk_result = "ctrl_r"
    /\ nk_key = "ctrl_r"
    /\ "ctrl_l" \in hotkey_combo
    /\ "ctrl" \notin hotkey_combo

---------------------------------------------------------------------------
(* Claims about parse_hotkey (SpecParse). *)

\* C9: the active hotkey combo is never empty.
C9_NonEmptyCombo == hotkey_combo # {}

---------------------------------------------------------------------------
(* Claims about the callbacks and the workers (SpecAudio). *)

\* C5: a block whose delivery began after stop_recording had cleared the
\* flag for its stream is never in the frame sequence.
C5_NoLateBlock ==
    \A i \in 1..Len(audio_data) : ~audio_data[i][2]

\* C10: the worker of a capture that ended with zero frames never calls
\* transcribe and never types text.
C10_EmptyNoInference ==
    \A n \in 1..MaxSessions :
        (workers[n].pc # "none" /\ workers[n].frames0 = 0)
        => /\ ~workers[n].called
           /\ \A i \in 1..Len(typed) : typed[i][1] # n

---------------------------------------------------------------------------
(* Claims about the workers of successive recordings (SpecPipe). *)

\* The text insert_text must have been invoked with once worker n is done:
\* the stripped text of the result, or nothing if that is empty.
Expected(n) ==
    IF Strip(workers[n].result[1]) # <<>>
    THEN <<Strip(workers[n].result[1])>>
    ELSE <<>>

\* C11: a worker whose transcription raised ends normally without text, its
\* insert_text is never invoked and nothing is typed for it, and the worker
\* of a later recording whose inference returns a text still invokes
\* insert_text with that text stripped.
C11_RaiseNoText ==
    \A n \in 1..MaxSessions :
        workers[n].raised =>
            /\ workers[n].pc \in {"cleanup", "done"}
            /\ workers[n].text = <<>>
            /\ workers[n].inserted = <<>>
            /\ \A i \in 1..Len(typed) : typed[i][1] # n
            /\ \A m \in (n+1)..MaxSessions :
                  (workers[m].pc = "done" /\ workers[m].result # <<>>)
                  => workers[m].inserted = Expected(m)

\* A recording whose transcribe call raised, followed by a recording whose
\* text was typed.
C11_Witness ==
    \E n \in 1..MaxSessions :
        /\ workers[n].raised
        /\ workers[n].called
        /\ \E m \in (n+1)..MaxSessions :
              /\ workers[m].inserted = <<<<"h", "i">>>>
              /\ \E i \in 1..Len(typed) : typed[i] = <<m, <<"h", "i">>>>

\* C12: for a recording with at least one frame whose inference returned a
\* text, insert_text is invoked at most once, and when the worker is done it
\* has been invoked exactly once with the stripped text if that is not
\* empty and not at all if it is.
C12_InsertStripped ==
    \A n \in 1..MaxSessions :
        (workers[n].frames0 >= 1 /\ workers[n].result # <<>>)
        => /\ Len(workers[n].inserted) <= 1
           /\ workers[n].pc \in {"insert", "cleanup", "done"}
           /\ workers[n].pc = "insert" => workers[n].inserted = <<>>
           /\ workers[n].pc \in {"cleanup", "done"}
                 => workers[n].inserted = Expected(n)

\* One worker has inserted the stripped text and another, whose text was
\* blank, has ended without inserting.
C12_Witness ==
    \E n, m \in 1..MaxSessions :
        /\ workers[n].frames0 >= 1
        /\ workers[n].pc = "done"
        /\ workers[n].result = <<(<<" ", "h", "i", " ">>)>>
        /\ workers[n].inserted = <<(<<"h", "i">>)>>
        /\ workers[m].frames0 >= 1
        /\ workers[m].pc = "done"
        /\ workers[m].result = <<(<<" ">>)>>
        /\ workers[m].inserted = <<>>

\* C16: at most one worker is inside the resident model's transcribe call.
C16_InferenceSerialized ==
    \A n, m \in 1..MaxSessions :
        (workers[n].pc = "infer" /\ workers[m].pc = "infer"
           /\ workers[n].model = workers[m].model)
        => n = m

\* C29: a stage of a worker that fails leaves the recording flag, the
\* pressed-key set and is_running as they are and takes the worker on to its
\* finally clause or its end; no worker ever ends with an exception.
C29_WorkerFailuresContained ==
    /\ [][\A n \in 1..MaxSessions :
            workers'[n].failed # workers[n].failed
            => /\ workers'[n].pc \in {"cleanup", "done"}
               /\ UNCHANGED <<recording, current_keys, is_running>>]_vars
    /\ [](\A n \in 1..MaxSessions : workers[n].pc # "dead")

\* One worker has returned after a failed injection and a failed deletion,
\* another after a failed inference.
C29_Witness ==
    \E n, m \in 1..MaxSessions :
        /\ workers[n].pc = "done"
        /\ {"inject", "unlink"} \subseteq workers[n].failed
        /\ workers[m].pc = "done"
        /\ "infer" \in workers[m].failed

\* C30: when a worker has finished, the temporary file it created has been
\* removed, unless the deletion itself failed, and then the worker has
\* finished all the same.
C30_SpillFileRemoved ==
    \A n \in 1..MaxSessions :
        /\ workers[n].pc = "done"
              => \/ workers[n].file \in {"none", "removed"}
                 \/ "unlink" \in workers[n].failed
        /\ "unlink" \in workers[n].failed => workers[n].pc = "done"

\* Files removed after an inference error, after an injection error and
\* after a successful injection.
C30_Witness ==
    /\ \E n \in 1..MaxSessions :
          /\ workers[n].pc = "done"
          /\ workers[n].file = "removed"
          /\ workers[n].failed \cap {"infer", "inject"} # {}
    /\ \E n \in 1..MaxSessions :
          /\ workers[n].pc = "done"
          /\ workers[n].file = "removed"
          /\ workers[n].failed = {}
          /\ workers[n].inserted # <<>>

---------------------------------------------------------------------------
(* Claims about configuration changes at run time (SpecConfig). *)

\* No configuration change thread is running and none has ended with an
\* exception.
Quiescent == \A i \in 1..MaxChanges : chg[i].pc \in {"none", "done"}

\* C13: once the load of a model switch has finished successfully, the
\* model a transcribe call runs on is the model that switch asked for, until
\* the load of another switch finishes.
C13_SwitchedModelActive ==
    loaded # <<>> => whisper_model = loaded[Len(loaded)][2]

\* C14: when the load of a model switch has failed, the resident model is
\* unchanged by it and an alert has been shown for it.
C14_FailedLoadReported ==
    \A i \in 1..MaxChanges :
        chg[i].raised = "load_model" =>
            /\ \A j \in 1..Len(loaded) : loaded[j][1] # i
            /\ \E a \in 1..Len(alerts) : alerts[a][1] = i

\* C15: at most one thread is inside whisper.load_model.
C15_OneLoadAtATime ==
    Cardinality({i \in 1..MaxChanges : chg[i].pc = "loading"}) <= 1

\* C17: after on_config_change has returned with a configuration that has a
\* hotkey, and no other change is in progress, the active combo is the parse
\* of the configured hotkey string.
C17_ComboReparsed ==
    \A i \in 1..MaxChanges :
        (/\ Quiescent
         /\ chg[i].kind = "config"
         /\ config = i
         /\ "hotkey" \in DOMAIN chg[i].update)
        => hotkey_combo = parse_hotkey(chg[i].update["hotkey"])

\* C18: after on_config_change has returned with a configuration that names
\* a model, no load has failed and no other change is in progress, the
\* resident model is the configured model.
C18_ModelReloaded ==
    \A i \in 1..MaxChanges :
        (/\ Quiescent
         /\ chg[i].kind = "config"
         /\ Spawned = {i}
         /\ "model" \in DOMAIN chg[i].update)
        => whisper_model = chg[i].update["model"]

\* C19: a handler that has changed the in-memory configuration has called
\* save_config by the time it ends, whether it returns or raises.
C19_ChangeSaved ==
    \A i \in 1..MaxChanges :
        (chg[i].pc \in {"done", "dead"} /\ chg[i].changed) => chg[i].saved

\* C20: after on_config_change has returned, and no other change has been
\* made, every field the update does not hold has the value it had before,
\* in self.config and, when the file was written, in the file.
C20_PartialMerged ==
    \A i \in 1..MaxChanges :
        (/\ Spawned = {i}
         /\ chg[i].kind = "config"
         /\ chg[i].pc = "done")
        => \A f \in DOMAIN chg[i].before \ DOMAIN chg[i].update :
              /\ f \in DOMAIN dicts[config]
              /\ dicts[config][f] = chg[i].before[f]
              /\ f \in DOMAIN saved_config
              /\ saved_config[f] = chg[i].before[f]

---------------------------------------------------------------------------
(* Claims about the listener's handlers while frames arrive (SpecFrames). *)

\* C26: a press event that calls start_recording while a capture is in
\* progress opens no stream and leaves the frame sequence, the stream
\* reference and the recording flag as they were.
C26_StartWhileCapturingNoOp ==
    [][(/\ PressStep
        /\ recording
        /\ hotkey_combo \subseteq current_keys')
       => UNCHANGED <<recording, audio_data, stream, streams, stream_args>>]_vars

\* start_recording has been called during a capture that holds frames and
\* the capture goes on.
C26_Witness ==
    /\ start_log = "noop"
    /\ recording
    /\ audio_data # <<>>
    /\ streams[stream] = "active"

\* C28: when stopping or closing the stream raises, the error is logged,
\* the frame sequence is left as it was, the flag is false and
\* stop_recording goes on to start the worker on the frames the recording
\* has accumulated.
C28_StopFailureStillHandsOff ==
    /\ [][(pc = "stop_stream" /\ pc' # "stop_stream" /\ "stop" \in err')
           => /\ pc' = "stop_spawn"
              /\ ~recording'
              /\ audio_data' = audio_data]_vars
    /\ [][(pc = "stop_spawn" /\ pc' # "stop_spawn" /\ "stop" \in err)
           => /\ ~recording'
              /\ audio_data' = audio_data
              /\ workers'[Len(stopped)].pc = "check"
              /\ workers'[Len(stopped)].frames0 = Len(audio_data)
              /\ workers[Len(stopped)].pc = "none"]_vars

\* stop_recording has returned after a failed stop of a recording that
\* holds frames, and its worker is started.
C28_Witness ==
    /\ err = {"stop"}
    /\ pc = "idle"
    /\ ~recording
    /\ stopped # <<>>
    /\ workers[Len(stopped)].pc = "check"
    /\ workers[Len(stopped)].frames0 >= 1

---------------------------------------------------------------------------
(* Claims about events whose handling raises (SpecEvents). *)

---------------------------------------------------------------------------
(* Claims about failures of the stream in the listener (Spec). *)

\* C27: after start_recording has failed to open or start the stream, an
\* alert has been shown, the flag is false, no worker was started for the
\* attempt and the handler has returned with the listener running.
C27_StartFailureSurfaced ==
    (start_log = "failed" /\ "start" \in err)
    => /\ alerts # <<>>
       /\ ~recording
       /\ pc = "idle"
       /\ is_running
       /\ \A n \in 1..MaxSessions :
             workers[n].pc # "none" => n <= Len(stopped)

---------------------------------------------------------------------------
(* Claims about changes of the device and the sample rate. *)

\* C21 (SpecConfig): when the only change made is a device change whose
\* device failed to open (show_mic_error was called), the handler ends
\* with the previous device configured in memory and in the file.
C21_FailedDeviceKeepsPrevious ==
    \A i \in 1..MaxChanges :
        (/\ Spawned = {i}
         /\ chg[i].pc = "done"
         /\ \E k \in 1..Len(alerts) : alerts[k] = <<i, "mic_error">>)
        => /\ Get(dicts[config], "microphone_device", "null") = previous_device
           /\ Get(saved_config, "microphone_device", "null") = previous_device

\* C22 (SpecDevice): every start_recording that opens a stream opens it on
\* the device the configuration holds at that moment, so a device changed
\* while no capture is in progress is the device of the next stream.
C22_NextStartUsesNewDevice ==
    [][StartCapture
       => stream_args'[stream'].device =
             Get(dicts[config], "microphone_device", "null")]_vars

\* The device was changed from the default to device 2 while no recording
\* was in progress, and the first recording after it is running on device 2.
C22_Witness ==
    /\ \E i \in 1..MaxChanges :
          /\ chg[i].pc = "done"
          /\ chg[i].changed
          /\ chg[i].probe.device = "2"
          /\ ~chg[i].probe.inflight
    /\ Get(dicts[config], "microphone_device", "null") = "2"
    /\ recording
    /\ stream = 1
    /\ streams[stream] = "active"
    /\ stream_args[stream].device = "2"

\* C23 (SpecDevice): every start_recording that opens a stream opens it at
\* the sample rate the configuration holds at that moment.
C23_NextStartUsesNewRate ==
    [][StartCapture
       => stream_args'[stream'].samplerate =
             Get(dicts[config], "sample_rate", 16000)]_vars

\* C24 (SpecDevice): a stream keeps the device and the rate it was opened
\* with, and no handler of a change has opened a stream (the test stream of
\* _init_microphone included) while a recording was in progress.
C24_ChangeDeferred ==
    /\ [][\A s \in 1..MaxSessions :
            streams[s] # "none" => stream_args'[s] = stream_args[s]]_vars
    /\ [](\A i \in 1..MaxChanges :
            chg[i].probe # NoProbe => ~chg[i].probe.inflight)

---------------------------------------------------------------------------
(* Claims about the conversion of samples (SpecSamples). *)

\* The float32 x is the quotient s / 2^n exactly.
IsQuotient(x, s, n) ==
    LET k == x[2] + n
    IN  /\ k >= 0
        /\ s % Pow2(k) = 0
        /\ s \div Pow2(k) = x[1]

\* The float32 x is a multiple of 2^k / 2^n nearest to s / 2^n.
IsNearestQuotient(x, s, n, k) ==
    LET q == Pow2(k)
    IN  /\ x[2] = k - n
        /\ \/ x[1] = s \div q /\ 2 * (s % q) <= q
           \/ x[1] = (s \div q) + 1 /\ 2 * (s % q) >= q

\* The float32 x lies in [-1, 1].
InUnit(x) ==
    IF x[2] >= 0 THEN x[1] = 0 \/ (x[2] = 0 /\ x[1] \in {-1, 1})
    ELSE IF x[2] <= -31 THEN TRUE
    ELSE -Pow2(-x[2]) <= x[1] /\ x[1] <= Pow2(-x[2])

---------------------------------------------------------------------------
(* Claims about startup (SpecStartup). *)

\* C32: when the listener is started, a model is resident, the
\* configuration file is not one that is not valid JSON, and the default
\* configuration has not taken the place of a config.json that was found
\* and could not be parsed.
C32_NoStartWithMalformedConfig ==
    st_pc = "listening"
    => /\ whisper_model # ""
       /\ st_file.kind # "invalid"
       /\ ~(/\ st_source = "default"
            /\ ~st_provided
            /\ st_legacy.kind = "invalid")

---------------------------------------------------------------------------
(* Claims about the writes of the configuration file (SpecTray). *)

\* C33: a save_config whose write fails is the last step of its handler,
\* which ends without an exception; the step changes neither the file nor
\* any configuration dict nor the dict self.config refers to, so the
\* in-memory configuration keeps what the handler wrote; and a handler
\* that ran alone leaves the value it was called with in self.config.
C33_SaveFailureOnlyLogged ==
    /\ [][\A i \in 1..MaxChanges :
            (chg'[i].save_error /\ ~chg[i].save_error)
            => /\ chg[i].pc = "save"
               /\ chg'[i].pc = "done"
               /\ chg'[i].raised = ""
               /\ UNCHANGED <<config, dicts, saved_config>>]_vars
    /\ [](\A i \in 1..MaxChanges :
            (chg[i].save_error /\ Spawned = {i})
            => /\ chg[i].kind = "model"
                    => Get(dicts[config], "model", "null") = chg[i].arg
               /\ chg[i].kind = "device"
                    => Get(dicts[config], "microphone_device", "null")
                          = chg[i].arg)

\* The tray has selected device 2, the write of the file has failed, the
\* handler has ended: self.config holds device 2 and the file the default.
C33_Witness ==
    \E i \in 1..MaxChanges :
        /\ chg[i].kind = "device"
        /\ chg[i].arg = "2"
        /\ chg[i].save_error
        /\ chg[i].pc = "done"
        /\ Get(dicts[config], "microphone_device", "null") = "2"
        /\ Get(saved_config, "microphone_device", "null") = "null"

---------------------------------------------------------------------------
(* Claims about the frames a worker reads (SpecAudio). *)

\* C34: once the worker started by the n-th stop_recording has read the
\* frame sequence, the blocks it took are blocks of the n-th recording's
\* stream, and it took some if that recording had any when the worker was
\* started.
C34_WorkerReadsOwnRecording ==
    \A n \in 1..MaxSessions :
        workers[n].pc \notin {"none", "check", "concat"}
        => /\ \A i \in 1..Len(workers[n].audio) :
                  workers[n].audio[i][1] = stopped[n]
           /\ workers[n].frames0 > 0 => workers[n].audio # <<>>

---------------------------------------------------------------------------
(* Claims about the pressed-key set (Spec). *)

C36_PressedSetAgreesWithHeld ==
    current_keys = {normalize_key(k, hotkey_combo) : k \in held}

---------------------------------------------------------------------------
(* Claims about the order of the injected texts (SpecPipe). *)

\* Worker n has read the blocks of its own recording.
ReadOwnBlocks(n) ==
    /\ workers[n].audio # <<>>
    /\ \A i \in 1..Len(workers[n].audio) : workers[n].audio[i][1] = stopped[n]

\* C37: the texts are typed in the order in which their recordings were
\* stopped: of two workers that each processed their own recording, the
\* one of the earlier stop types first.
C37_TypedInStopOrder ==
    \A i, j \in 1..Len(typed) :
        (i < j /\ ReadOwnBlocks(typed[i][1]) /\ ReadOwnBlocks(typed[j][1]))
        => typed[i][1] < typed[j][1]

---------------------------------------------------------------------------
(* Claims about the resident model (SpecTray). *)

\* C38: whenever no model-change request is in progress (every handler has
\* returned or has ended with an exception), the resident model is the one
\* the configuration's model field names.
C38_ResidentIsConfigured ==
    (\A i \in 1..MaxChanges : chg[i].pc \in {"none", "done", "dead"})
    => whisper_model = Get(dicts[config], "model", "base")

---------------------------------------------------------------------------
(* Claims about the settings window's copy of the configuration            *)
(* (SpecWindow). *)

\* C39: the tray has selected a device and its handler has returned; the
\* settings window, opened before that, then changes the language and its
\* on_config_change has returned: the configuration holds the tray's device
\* and the window's language.
C39_TrayFieldNotReverted ==
    \A t, c \in 1..MaxChanges :
        (/\ t < c
         /\ chg[t].kind = "device"
         /\ chg[t].pc = "done"
         /\ chg[t].changed
         /\ chg[c].kind = "config"
         /\ chg[c].pc = "done"
         /\ chg[c].update = W_language
         /\ Get(chg[c].before, "microphone_device", "null") = chg[t].arg
         /\ config = c)
        => /\ Get(dicts[config], "microphone_device", "null") = chg[t].arg
           /\ Get(dicts[config], "language", "null") = "en"

---------------------------------------------------------------------------
(* Claims about shutdown (SpecExitFair). *)

\* C40: once on_exit() has been called, eventually the listener loop has
\* ended, the tray loop has ended and run() has returned.
C40_ExitShutsDown ==
    (ex_delivered > 0)
    ~> (ex_listener = "ended" /\ ex_tray = "ended" /\ st_pc = "returned")

=============================================================================
